---- MODULE Spec2Model ----
(***************************************************************************)
(* Conversational memory store of CD2-BE (api/real_faiss/faiss_service)    *)
(* as a state machine: the in-process FAISS store (vector index, the       *)
(* index-to-id map and the in-memory docstore), its on-disk snapshot, the  *)
(* relational session rows it touches, and the request coroutines that     *)
(* operate on it.  Coroutines interleave only at the awaits of the code.   *)
(***************************************************************************)
EXTENDS Integers, Sequences, FiniteSets, TLC

\* ------------------------------------------------------------------ bounds
MaxIds == 3          \* messages ever appended (uuid4 values drawn)
MaxTime == 2         \* last clock reading that is still distinct
MaxFaults == 1       \* injected failures (embedding provider, disk writes)
NProcs == 2          \* request coroutines in flight

\* ------------------------------------------------------- program constants
DIMENSIONS == 1536
TITLE_PREFIX_LEN == 50
K_FETCH_FACTOR == 5
K_FETCH_MIN == 20
MAX_QUESTION_INDEX == 30

\* ------------------------------------------------------------ value domains
Procs == 1..NProcs
SessionIds == {1, 2}
UserIds == {1, 2}
Roles == {"user", "optimize", "report", "hitl_user", "hitl_ai"}
RecStatus == {"None", "like", "dislike"}
NoTarget == 0

\* Texts are sequences of characters.
TxtA == <<"a">>
TxtAb == <<"A", "b">>
TxtB == <<"b">>
PLACEHOLDER_TITLE == <<"N", "e", "w">>

Lower(c) == IF c = "A" THEN "a" ELSE IF c = "B" THEN "b" ELSE c

LowerStr(s) == [i \in 1..Len(s) |-> Lower(s[i])]

\* Python's `needle in hay` on strings.
Contains(hay, needle) ==
    \E k \in 0..(Len(hay) - Len(needle)) :
        \A i \in 1..Len(needle) : hay[k + i] = needle[i]

\* Python's s[:n].
Prefix(s, n) == IF Len(s) <= n THEN s ELSE SubSeq(s, 1, n)

\* ------------------------------------------------------------ timestamps
\* datetime.now(timezone.utc).isoformat(): one clock unit is half a second;
\* isoformat() leaves the fraction out when it is zero.  Characters are
\* their code points: '+' = 43, '.' = 46, digits 48..57.
IsoFormat(t) ==
    LET sec == t \div 2
        us == t % 2
    IN  <<48 + (sec \div 10), 48 + (sec % 10)>>
            \o (IF us = 0 THEN <<>> ELSE <<46, 53>>)
            \o <<43>>

\* Python's str <, on code points.
RECURSIVE StrLess(_, _)
StrLess(a, b) ==
    IF b = <<>> THEN FALSE
    ELSE IF a = <<>> THEN TRUE
    ELSE IF Head(a) # Head(b) THEN Head(a) < Head(b)
    ELSE StrLess(Tail(a), Tail(b))

\* ------------------------------------------------------------ embeddings
\* The embedding provider is an opaque function of the text; one
\* coordinate stands for the 1536.
RECURSIVE Embed(_)
Embed(text) ==
    IF text = <<>> THEN 0
    ELSE (IF Head(text) = "a" THEN 1 ELSE IF Head(text) = "A" THEN 2 ELSE 5)
             + Embed(Tail(text))

\* IndexFlatL2: squared L2 distance.
L2(x, y) == (x - y) * (x - y)

\* ------------------------------------------------------- the FAISS store
\* index: the vectors, by position; i2d: index_to_docstore_id, by position;
\* dict: InMemoryDocstore._dict in insertion order.
NoDb == [init |-> FALSE, index |-> <<>>, i2d |-> <<>>, dict |-> <<>>]

create_empty_db == [init |-> TRUE, index |-> <<>>, i2d |-> <<>>, dict |-> <<>>]

SeqRange(s) == {s[i] : i \in 1..Len(s)}

DictIds(d) == {d.dict[i].id : i \in 1..Len(d.dict)}

IndexIds(d) == SeqRange(d.i2d)

DictPos(d, id) == CHOOSE i \in 1..Len(d.dict) : d.dict[i].id = id

DictGet(d, id) == d.dict[DictPos(d, id)]

RECURSIVE SelectSeqIdx(_, _, _)
\* s without the positions in drop, from position i on.
SelectSeqIdx(s, drop, i) ==
    IF i > Len(s) THEN <<>>
    ELSE (IF i \in drop THEN <<>> ELSE <<s[i]>>) \o SelectSeqIdx(s, drop, i + 1)

\* FAISS.__add: index.add, docstore.add, index_to_docstore_id.update, with no
\* await in between.  docs are [id, page_content, metadata] records.
FaissAddOverwrite(d, docs) ==
    [d EXCEPT !.index = d.index \o [i \in 1..Len(docs) |-> Embed(docs[i].page_content)],
              !.dict = docs,
              !.i2d = d.i2d \o [i \in 1..Len(docs) |-> docs[i].id]]

FaissAdd(d, docs) ==
    [d EXCEPT !.index = d.index \o [i \in 1..Len(docs) |-> Embed(docs[i].page_content)],
              !.dict = d.dict \o docs,
              !.i2d = d.i2d \o [i \in 1..Len(docs) |-> docs[i].id]]

\* FAISS.delete([id]) raises when the id is not in index_to_docstore_id.
FaissCanDelete(d, id) == id \in IndexIds(d)

FaissDeleteDocOnly(d, id) ==
    [d EXCEPT !.dict = SelectSeq(d.dict, LAMBDA e : e.id # id)]

FaissDelete(d, id) ==
    LET drop == {i \in 1..Len(d.i2d) : d.i2d[i] = id}
    IN  [d EXCEPT !.index = SelectSeqIdx(d.index, drop, 1),
                  !.dict = SelectSeq(d.dict, LAMBDA e : e.id # id),
                  !.i2d = SelectSeqIdx(d.i2d, drop, 1)]

\* ------------------------------------------------------------ persistence
\* The snapshot directory: <INDEX_NAME>.faiss holds the vectors,
\* <INDEX_NAME>.pkl the pickled (docstore, index_to_docstore_id).
NoFile == [st |-> "absent", index |-> <<>>, dict |-> <<>>, i2d |-> <<>>]
BadFile == [st |-> "corrupt", index |-> <<>>, dict |-> <<>>, i2d |-> <<>>]
FaissFile(d) == [st |-> "ok", index |-> d.index, dict |-> <<>>, i2d |-> <<>>]
PklFile(d) == [st |-> "ok", index |-> <<>>, dict |-> d.dict, i2d |-> d.i2d]

SaveOutcomes == {"ok", "fail_index", "fail_pkl"}

\* FAISS.save_local: faiss.write_index, then pickle.dump.  fail_index: the
\* index could not be opened for writing, nothing is written; fail_pkl: the
\* index is written and the pickle is left truncated.
save_local(d, dk, outcome) ==
    CASE outcome = "ok" -> [faiss |-> FaissFile(d), pkl |-> PklFile(d)]
      [] outcome = "fail_index" -> dk
      [] OTHER -> [faiss |-> FaissFile(d), pkl |-> BadFile]

\* FAISS.load_local raises on an unreadable file.
LoadFails(dk) == dk.faiss.st # "ok" \/ dk.pkl.st # "ok"

load_local(dk) ==
    [init |-> TRUE, index |-> dk.faiss.index, i2d |-> dk.pkl.i2d, dict |-> dk.pkl.dict]

FilesExist(dk) == dk.faiss.st # "absent" /\ dk.pkl.st # "absent"


\* load_or_create_faiss_db.  embOk: OpenAIEmbeddings() could be constructed.
\* save: the outcome of the save_local call it made, or "none".
load_or_create_always(d, dk, embOk, outcome) ==
    IF ~embOk THEN [db |-> d, disk |-> dk, save |-> "none", raised |-> TRUE]
    ELSE IF FilesExist(dk) /\ ~LoadFails(dk)
    THEN [db |-> load_local(dk), disk |-> dk, save |-> "none", raised |-> FALSE]
    ELSE [db |-> create_empty_db, disk |-> save_local(create_empty_db, dk, outcome),
          save |-> outcome, raised |-> FALSE]

load_or_create_no_save(d, dk, embOk, outcome) ==
    IF d.init THEN [db |-> d, disk |-> dk, save |-> "none", raised |-> FALSE]
    ELSE IF ~embOk THEN [db |-> d, disk |-> dk, save |-> "none", raised |-> TRUE]
    ELSE IF FilesExist(dk) /\ ~LoadFails(dk)
    THEN [db |-> load_local(dk), disk |-> dk, save |-> "none", raised |-> FALSE]
    ELSE [db |-> create_empty_db, disk |-> dk, save |-> "none", raised |-> FALSE]

load_or_create_faiss_db(d, dk, embOk, outcome) ==
    IF d.init THEN [db |-> d, disk |-> dk, save |-> "none", raised |-> FALSE]
    ELSE IF ~embOk THEN [db |-> d, disk |-> dk, save |-> "none", raised |-> TRUE]
    ELSE IF FilesExist(dk) /\ ~LoadFails(dk)
    THEN [db |-> load_local(dk), disk |-> dk, save |-> "none", raised |-> FALSE]
    ELSE [db |-> create_empty_db, disk |-> save_local(create_empty_db, dk, outcome),
          save |-> outcome, raised |-> FALSE]

save_db_skip(d, dk, outcome) == dk

\* save_db: returns at once without a store; swallows every exception of
\* save_local.  The result is the new directory content.
save_db(d, dk, outcome) == IF ~d.init THEN dk ELSE save_local(d, dk, outcome)

\* What the caller of save_db sees: nothing is raised, so the operation goes
\* on to return its success value.
RetRaise == [kind |-> "raise", ids |-> <<>>, ok |-> FALSE]
RetNone == [kind |-> "none", ids |-> <<>>, ok |-> FALSE]
RetIds(ids) == [kind |-> "ids", ids |-> ids, ok |-> TRUE]
RetBool(b) == [kind |-> "bool", ids |-> <<>>, ok |-> b]

AfterSavePropagating(outcome, ret) == IF outcome = "ok" THEN ret ELSE RetRaise

AfterSave(outcome, ret) == ret

\* ------------------------------------------------------- bitmask codec
Pow2(n) == IF n = 0 THEN 1 ELSE 2 ^ n

BitSet(mask, i) == (mask \div Pow2(i)) % 2 = 1

RECURSIVE convert_indices_adding(_)
convert_indices_adding(indices) ==
    IF indices = <<>> THEN 0
    ELSE LET rest == convert_indices_adding(SubSeq(indices, 1, Len(indices) - 1))
             index == indices[Len(indices)]
         IN  IF 1 <= index /\ index <= MAX_QUESTION_INDEX
             THEN rest + Pow2(index - 1)
             ELSE rest

RECURSIVE convert_indices_unbounded(_)
convert_indices_unbounded(indices) ==
    IF indices = <<>> THEN 0
    ELSE LET rest == convert_indices_unbounded(SubSeq(indices, 1, Len(indices) - 1))
             index == indices[Len(indices)]
         IN  IF 1 <= index
             THEN (IF BitSet(rest, index - 1) THEN rest ELSE rest + Pow2(index - 1))
             ELSE rest

RECURSIVE convert_indices_to_bitmask(_)
convert_indices_to_bitmask(indices) ==
    IF indices = <<>> THEN 0
    ELSE LET rest == convert_indices_to_bitmask(SubSeq(indices, 1, Len(indices) - 1))
             index == indices[Len(indices)]
         IN  IF 1 <= index /\ index <= MAX_QUESTION_INDEX
             THEN (IF BitSet(rest, index - 1) THEN rest ELSE rest + Pow2(index - 1))
             ELSE rest

RECURSIVE BitsFrom(_, _)
BitsFrom(bitmask, i) ==
    IF i >= MAX_QUESTION_INDEX THEN <<>>
    ELSE (IF BitSet(bitmask, i) THEN <<i + 1>> ELSE <<>>) \o BitsFrom(bitmask, i + 1)

convert_bitmask_to_indices(bitmask) == IF bitmask = 0 THEN <<>> ELSE BitsFrom(bitmask, 0)


\* ------------------------------------------------------------------ state
VARIABLES
    phase,      \* "boot": the startup hook has not run; "run": serving requests
    db,         \* crud.db: NoDb for None, else the FAISS store
    disk,       \* the snapshot directory: [faiss, pkl]
    sessions,   \* relational Session rows: session_id -> [exists, user_id, title]
    clock,      \* the last reading of datetime.now
    nextId,     \* the next fresh uuid4
    procs,      \* the request coroutines
    faults,     \* failures injected so far: [emb, save]
    last,       \* the step just taken: [op, save (outcome of its save_local call),
                \* pre (at a restart and the startup after it: the store before)]
    users,      \* relational User rows: user_id -> [refresh_token]
    calls,      \* the /refresh-token coroutines
    grants,     \* the answers /refresh-token has sent, in order
    upload_dir, \* UPLOAD_DIR: session_id -> the files of the session's directory
    upload_resp \* the answer of the last POST /{session_id}/files

vars == <<phase, db, disk, sessions, clock, nextId, procs, faults, last,
          users, calls, grants, upload_dir, upload_resp>>

\* What the memory store and its endpoints never touch.
webvars == <<users, calls, grants, upload_dir, upload_resp>>

\* What the account and upload endpoints never touch.
storevars == <<phase, db, disk, nextId, procs, faults, last>>

\* An optional argument is [some, val].
Absent == [some |-> FALSE, val |-> <<>>]
Some(v) == [some |-> TRUE, val |-> v]

\* The arguments of a synchronous operation; rec "absent" is one not given.
NoArg == [id |-> 0, text |-> Absent, idx |-> Absent, rec |-> "absent"]

\* What the HTTP layer saw of a request: the endpoint, the authenticated user (0: none),
\* whether AI_SERVER_SHARED_SECRET is set, the X-Signature-HMAC-SHA256 header
\* (NoSig: not sent) and the serialized payload.
NoSig == [key |-> "none", data |-> <<>>, alt |-> 0]

NoReq == [ep |-> "none", caller |-> 0, secret |-> FALSE, sig |-> NoSig, payload |-> <<>>]

\* status: the HTTP status the router answered with (0: not set by a router).
IdleProc ==
    [op |-> "idle", pc |-> "idle", docs |-> <<>>, i |-> 0, first |-> <<>>,
     stu |-> 0, todo |-> <<>>, ret |-> RetNone, arg |-> NoArg,
     status |-> 0, req |-> NoReq]

Last(op, save) == [op |-> op, save |-> save, pre |-> NoDb]

\* A token is the JWT's payload and whether its signature verifies; jose
\* writes exp in whole seconds, and the same payload gives the same string.
\* NoToken is None: no cookie, or an empty refresh_token column.
NoToken == [sub |-> 0, exp |-> 0, type |-> "none", signed |-> FALSE]

\* A /refresh-token coroutine between its awaits.
IdleCall == [pc |-> "idle", token |-> NoToken, user_id |-> 0, new |-> NoToken]

\* No upload has been answered.
NoUpload == [status |-> 0, session_id |-> 0, files |-> <<>>, uploaded_files |-> <<>>]

\* A coroutine that has returned or raised: only its outcome is left.
Done(P, ret) == [IdleProc EXCEPT !.op = P.op, !.pc = "done", !.ret = ret]

CanFail == faults.emb + faults.save < MaxFaults

Failed(outcome) == outcome \notin {"none", "ok"}

Bump(embFault, save) ==
    [emb |-> faults.emb + (IF embFault THEN 1 ELSE 0),
     save |-> faults.save + (IF Failed(save) THEN 1 ELSE 0)]

\* The directory before the first start: empty, or left half-written.
InitialDisks ==
    {[faiss |-> NoFile, pkl |-> NoFile],
     [faiss |-> [NoFile EXCEPT !.st = "ok"], pkl |-> NoFile],
     [faiss |-> [NoFile EXCEPT !.st = "ok"], pkl |-> BadFile]}

InitialSessions ==
    [s \in SessionIds |-> [exists |-> TRUE, user_id |-> s, title |-> PLACEHOLDER_TITLE]]

Init ==
    /\ phase = "boot"
    /\ db = NoDb
    /\ disk \in InitialDisks
    /\ sessions = InitialSessions
    /\ clock = 0
    /\ nextId = 1
    /\ procs = [p \in Procs |-> IdleProc]
    /\ faults = [emb |-> 0, save |-> 0]
    /\ last = Last("init", "none")
    /\ users = [u \in UserIds |-> [refresh_token |-> NoToken]]
    /\ calls = [p \in Procs |-> IdleCall]
    /\ grants = <<>>
    /\ upload_dir = [s \in SessionIds |-> {}]
    /\ upload_resp = NoUpload

\* ------------------------------------------------------------ lifecycle
\* main.startup_event: calls load_or_create_faiss_db and logs what it raises.
Startup(embOk, outcome) ==
    LET R == load_or_create_faiss_db(db, disk, embOk, outcome)
    IN  /\ phase = "boot"
        /\ (R.raised \/ Failed(R.save)) => CanFail
        /\ phase' = "run"
        /\ db' = R.db
        /\ disk' = R.disk
        /\ faults' = Bump(R.raised, R.save)
        /\ last' = [op |-> "startup", save |-> R.save, pre |-> last.pre]
        /\ UNCHANGED <<sessions, clock, nextId, procs>>
        /\ UNCHANGED webvars

\* load_or_create_faiss_db called again while the store exists (a duplicate
\* startup hook).
StartupAgain(embOk, outcome) ==
    LET R == load_or_create_faiss_db(db, disk, embOk, outcome)
    IN  /\ phase = "run"
        /\ db.init
        /\ (R.raised \/ Failed(R.save)) => CanFail
        /\ db' = R.db
        /\ disk' = R.disk
        /\ faults' = Bump(R.raised, R.save)
        /\ last' = Last("startup_again", R.save)
        /\ UNCHANGED <<phase, sessions, clock, nextId, procs>>
        /\ UNCHANGED webvars

Quiescent == \A p \in Procs : procs[p].pc = "idle"

\* The process ends and starts again: memory is gone, the directory stays.
Restart ==
    /\ phase = "run"
    /\ Quiescent
    /\ phase' = "boot"
    /\ db' = NoDb
    /\ last' = [op |-> "restart", save |-> "none", pre |-> db]
    /\ UNCHANGED <<disk, sessions, clock, nextId, procs, faults>>
    /\ UNCHANGED webvars

\* The response leaves; the coroutine is gone.
Respond(p) ==
    /\ procs[p].pc = "done"
    /\ procs' = [procs EXCEPT ![p] = IdleProc]
    /\ last' = Last("respond", "none")
    /\ UNCHANGED <<phase, db, disk, sessions, clock, nextId, faults>>
    /\ UNCHANGED webvars


\* ------------------------------------------------ add_faiss_documents
\* A clock reading: never before the previous one.
Now(clk, dt) == IF clk + dt > MaxTime THEN MaxTime ELSE clk + dt

\* crud.py 111-126: the metadata of one DocumentInput.
MakeMetadata(doc_input, now) ==
    [session_id |-> doc_input.session_id,
     user_id |-> doc_input.user_id,
     message_role |-> doc_input.message_role,
     time |-> IsoFormat(now),
     evaluation_bitmask |->
        IF doc_input.evaluation_indices # <<>>
        THEN convert_indices_to_bitmask(doc_input.evaluation_indices) ELSE 0,
     recommendation_status |-> doc_input.recommendation_status,
     target_message_id |-> doc_input.target_message_id]

RECURSIVE RunLoop(_, _, _)

\* The rest of one loop iteration (111-126), then the loop goes on.
FinishIteration(P, clk, dt) ==
    LET now == Now(clk, dt)
        d == P.docs[P.i]
        doc == [id |-> 0, page_content |-> d.page_content, metadata |-> MakeMetadata(d, now)]
    IN  RunLoop([P EXCEPT !.todo = Append(@, doc), !.i = @ + 1], now, dt)

\* The loop of 101-126 from document P.i up to the next await: the session
\* lookup of 105, or aadd_documents of 130 (or the return of 129).
\* first = <<>> stands for a falsy first_user_message_content (None or "").
RunLoop(P, clk, dt) ==
    IF P.i > Len(P.docs)
    THEN [proc |-> IF P.todo = <<>>
                   THEN Done(P, RetIds(<<>>))
                   ELSE [P EXCEPT !.pc = "embed"],
          clock |-> clk]
    ELSE IF P.docs[P.i].message_role = "user" /\ P.first = <<>>
    THEN [proc |-> [P EXCEPT !.first = P.docs[P.i].page_content, !.pc = "lookup"],
          clock |-> clk]
    ELSE FinishIteration(P, clk, dt)

\* 106-109: the row the lookup returned.
AfterLookup(P, sess, clk, dt) ==
    LET sid == P.docs[P.i].session_id
        P1 == IF sess[sid].exists /\ sess[sid].title = PLACEHOLDER_TITLE
              THEN [P EXCEPT !.stu = sid] ELSE P
    IN  FinishIteration(P1, clk, dt)

\* uuid4 values for a batch of n.
FreshIdsSame(nid, n) == [k \in 1..n |-> nid]

FreshIdsFromOne(nid, n) == [k \in 1..n |-> k]

FreshIds(nid, n) == [k \in 1..n |-> nid + k - 1]

\* Documents not yet given an id by a running append.
Pending == LET RECURSIVE Sum(_)
               Sum(S) == IF S = {} THEN 0
                         ELSE LET q == CHOOSE q \in S : TRUE
                              IN  (IF procs[q].pc \in {"lookup", "embed"}
                                   THEN Len(procs[q].docs) ELSE 0) + Sum(S \ {q})
           IN  Sum(Procs)

\* 93-96 and the loop up to its first await.
AppendStart(p, batch, dt) ==
    /\ phase = "run"
    /\ procs[p].pc = "idle"
    /\ (nextId - 1) + Pending + Len(batch) <= MaxIds
    /\ LET P0 == [IdleProc EXCEPT !.op = "append", !.docs = batch, !.i = 1]
           R == IF ~db.init
                THEN [proc |-> Done(P0, RetRaise), clock |-> clock]
                ELSE RunLoop(P0, clock, dt)
       IN  /\ procs' = [procs EXCEPT ![p] = R.proc]
           /\ clock' = R.clock
    /\ last' = Last("append_start", "none")
    /\ UNCHANGED <<phase, db, disk, sessions, nextId, faults>>
    /\ UNCHANGED webvars

\* The lookup of 105 returns; the loop goes on to its next await.
AppendLookup(p, dt) ==
    /\ procs[p].pc = "lookup"
    /\ LET R == AfterLookup(procs[p], sessions, clock, dt)
       IN  /\ procs' = [procs EXCEPT ![p] = R.proc]
           /\ clock' = R.clock
    /\ last' = Last("append_lookup", "none")
    /\ UNCHANGED <<phase, db, disk, sessions, nextId, faults>>
    /\ UNCHANGED webvars

\* aadd_documents of 130 returns or raises: the embeddings arrive and __add
\* runs; then 132-138 up to the commit await, or to the return.
AppendEmbed(p, embOk, outcome) ==
    LET P == procs[p]
        n == Len(P.todo)
        ids == FreshIds(nextId, n)
        docs == [k \in 1..n |-> [P.todo[k] EXCEPT !.id = ids[k]]]
        d1 == FaissAdd(db, docs)
        rename == P.stu # 0 /\ P.first # <<>>
    IN  /\ P.pc = "embed"
        /\ IF ~embOk
           THEN /\ CanFail
                /\ procs' = [procs EXCEPT ![p] = Done(P, RetRaise)]
                /\ faults' = Bump(TRUE, "none")
                /\ last' = Last("append_embed", "none")
                /\ UNCHANGED <<db, disk, nextId>>
           ELSE /\ db' = d1
                /\ nextId' = nextId + n
                /\ IF rename
                   THEN /\ procs' = [procs EXCEPT ![p] =
                                        [P EXCEPT !.pc = "commit", !.ret = RetIds(ids)]]
                        /\ last' = Last("append_embed", "none")
                        /\ UNCHANGED <<disk, faults>>
                   ELSE /\ Failed(outcome) => CanFail
                        /\ disk' = save_db(d1, disk, outcome)
                        /\ procs' = [procs EXCEPT ![p] =
                                        Done(P, AfterSave(outcome, RetIds(ids)))]
                        /\ faults' = Bump(FALSE, outcome)
                        /\ last' = Last("append_embed", outcome)
        /\ UNCHANGED <<phase, sessions, clock>>
        /\ UNCHANGED webvars

\* The commit of 134 returns: the title is written; then save_db and return.
AppendCommit(p, outcome) ==
    LET P == procs[p]
    IN  /\ P.pc = "commit"
        /\ Failed(outcome) => CanFail
        /\ sessions' = [sessions EXCEPT ![P.stu].title = Prefix(P.first, TITLE_PREFIX_LEN)]
        /\ disk' = save_db(db, disk, outcome)
        /\ procs' = [procs EXCEPT ![p] = Done(P, AfterSave(outcome, P.ret))]
        /\ faults' = Bump(FALSE, outcome)
        /\ last' = Last("append_commit", outcome)
        /\ UNCHANGED <<phase, db, clock, nextId>>
        /\ UNCHANGED webvars


\* ------------------------------------------------ the synchronous operations
\* None of the four below awaits anything that suspends: each runs from its
\* first line to its return in one step.  A result is
\* [db, disk, ret, save (outcome of its save_local call), embFault].
OpResult(d, dk, ret, save, embFault) ==
    [db |-> d, disk |-> dk, ret |-> ret, save |-> save, embFault |-> embFault]

ReplaceDoc(d, id, doc) ==
    [d EXCEPT !.dict = [i \in 1..Len(d.dict) |-> IF d.dict[i].id = id THEN doc ELSE d.dict[i]]]

\* update_faiss_document.  embOk: the embedding call inside add_documents
\* returns.
update_keep_old(d, dk, message_id, new_page_content, embOk, outcome) ==
    IF ~d.init \/ message_id \notin DictIds(d)
    THEN OpResult(d, dk, RetBool(FALSE), "none", FALSE)
    ELSE OpResult(d, save_db(d, dk, outcome), AfterSave(outcome, RetBool(TRUE)), outcome, FALSE)

update_as_user(d, dk, message_id, new_page_content, embOk, outcome) ==
    IF ~d.init \/ message_id \notin DictIds(d)
    THEN OpResult(d, dk, RetBool(FALSE), "none", FALSE)
    ELSE LET original_doc == DictGet(d, message_id)
             new_doc == [id |-> message_id, page_content |-> new_page_content,
                         metadata |-> [original_doc.metadata EXCEPT !.message_role = "user"]]
             d2 == FaissAdd(FaissDelete(d, message_id), <<new_doc>>)
         IN  OpResult(d2, save_db(d2, dk, outcome), AfterSave(outcome, RetBool(TRUE)), outcome, FALSE)

update_faiss_document(d, dk, message_id, new_page_content, embOk, outcome) ==
    IF ~d.init THEN OpResult(d, dk, RetBool(FALSE), "none", FALSE)
    ELSE IF message_id \notin DictIds(d) THEN OpResult(d, dk, RetBool(FALSE), "none", FALSE)
    ELSE LET original_doc == DictGet(d, message_id)
             new_doc == [id |-> message_id, page_content |-> new_page_content,
                         metadata |-> original_doc.metadata]
         IN  IF ~FaissCanDelete(d, message_id)
             THEN OpResult(d, dk, RetBool(FALSE), "none", FALSE)
             ELSE LET d1 == FaissDelete(d, message_id)
                  IN  IF ~embOk
                      THEN OpResult(d1, dk, RetBool(FALSE), "none", TRUE)
                      ELSE LET d2 == FaissAdd(d1, <<new_doc>>)
                           IN  OpResult(d2, save_db(d2, dk, outcome),
                                        AfterSave(outcome, RetBool(TRUE)), outcome, FALSE)

\* update_recommendation_status that keeps a status once it is set.
update_recommendation_once(d, dk, message_id, status, outcome) ==
    IF ~d.init \/ message_id \notin DictIds(d)
    THEN OpResult(d, dk, RetBool(FALSE), "none", FALSE)
    ELSE LET doc == DictGet(d, message_id)
             d1 == IF doc.metadata.recommendation_status = "None"
                   THEN ReplaceDoc(d, message_id,
                                   [doc EXCEPT !.metadata.recommendation_status = status])
                   ELSE d
         IN  OpResult(d1, save_db(d1, dk, outcome), AfterSave(outcome, RetBool(TRUE)), outcome, FALSE)

\* update_recommendation_status: the metadata is changed in place.
update_recommendation_status(d, dk, message_id, status, outcome) ==
    IF ~d.init THEN OpResult(d, dk, RetBool(FALSE), "none", FALSE)
    ELSE IF message_id \notin DictIds(d) THEN OpResult(d, dk, RetBool(FALSE), "none", FALSE)
    ELSE LET doc == DictGet(d, message_id)
             d1 == ReplaceDoc(d, message_id,
                              [doc EXCEPT !.metadata.recommendation_status = status])
         IN  OpResult(d1, save_db(d1, dk, outcome),
                      AfterSave(outcome, RetBool(TRUE)), outcome, FALSE)

\* delete_faiss_document: FAISS.delete raises for an unknown id.
delete_missing_ok(d, dk, message_id, outcome) ==
    IF ~d.init THEN OpResult(d, dk, RetBool(FALSE), "none", FALSE)
    ELSE LET d1 == IF FaissCanDelete(d, message_id) THEN FaissDelete(d, message_id) ELSE d
         IN  OpResult(d1, save_db(d1, dk, outcome),
                      AfterSave(outcome, RetBool(TRUE)), outcome, FALSE)

delete_faiss_document(d, dk, message_id, outcome) ==
    IF ~d.init THEN OpResult(d, dk, RetBool(FALSE), "none", FALSE)
    ELSE IF ~FaissCanDelete(d, message_id)
    THEN OpResult(d, dk, RetBool(FALSE), "none", FALSE)
    ELSE LET d1 == FaissDelete(d, message_id)
         IN  OpResult(d1, save_db(d1, dk, outcome),
                      AfterSave(outcome, RetBool(TRUE)), outcome, FALSE)

\* ai_update_document.  new_recommendation_status is "absent" (not given),
\* "none", "like" or "dislike".  The metadata dict is
\* the stored document's own: 421-428 change it in place.
\* ai_update_document writing both fields whenever it is called.
ai_update_clearing(d, dk, message_id, new_page_content, new_evaluation_indices, new_recommendation_status, embOk, outcome) ==
    IF ~d.init \/ message_id \notin DictIds(d)
    THEN OpResult(d, dk, RetBool(FALSE), "none", FALSE)
    ELSE LET doc == DictGet(d, message_id)
             metadata ==
                [doc.metadata EXCEPT
                    !.evaluation_bitmask =
                        IF new_evaluation_indices.some
                        THEN convert_indices_to_bitmask(new_evaluation_indices.val) ELSE 0,
                    !.recommendation_status =
                        IF new_recommendation_status \in {"absent", "none"}
                        THEN "None" ELSE new_recommendation_status]
             dm == ReplaceDoc(d, message_id, [doc EXCEPT !.metadata = metadata])
         IN  OpResult(dm, save_db(dm, dk, outcome), AfterSave(outcome, RetBool(TRUE)), outcome, FALSE)

ai_update_document(d, dk, message_id, new_page_content, new_evaluation_indices, new_recommendation_status, embOk, outcome) ==
    IF ~d.init THEN OpResult(d, dk, RetBool(FALSE), "none", FALSE)
    ELSE IF message_id \notin DictIds(d) THEN OpResult(d, dk, RetBool(FALSE), "none", FALSE)
    ELSE LET doc == DictGet(d, message_id)
             md1 == IF new_evaluation_indices.some
                    THEN [doc.metadata EXCEPT !.evaluation_bitmask =
                             convert_indices_to_bitmask(new_evaluation_indices.val)]
                    ELSE doc.metadata
             metadata ==
                    IF new_recommendation_status = "absent" THEN md1
                    ELSE IF new_recommendation_status = "none"
                    THEN [md1 EXCEPT !.recommendation_status = "None"]
                    ELSE [md1 EXCEPT !.recommendation_status = new_recommendation_status]
             dm == ReplaceDoc(d, message_id, [doc EXCEPT !.metadata = metadata])
         IN  IF new_page_content.some /\ doc.page_content # new_page_content.val
             THEN IF ~FaissCanDelete(dm, message_id)
                  THEN OpResult(dm, dk, RetBool(FALSE), "none", FALSE)
                  ELSE LET d1 == FaissDelete(dm, message_id)
                           new_doc == [id |-> message_id,
                                       page_content |-> new_page_content.val,
                                       metadata |-> metadata]
                       IN  IF ~embOk
                           THEN OpResult(d1, dk, RetBool(FALSE), "none", TRUE)
                           ELSE LET d2 == FaissAdd(d1, <<new_doc>>)
                                IN  OpResult(d2, save_db(d2, dk, outcome),
                                             AfterSave(outcome, RetBool(TRUE)), outcome, FALSE)
             ELSE OpResult(dm, save_db(dm, dk, outcome),
                           AfterSave(outcome, RetBool(TRUE)), outcome, FALSE)

\* One synchronous operation, from call to return, and what the router that
\* called it (if one did) answers.
AtomicReq(p, opname, arg, R, req, code) ==
    /\ phase = "run"
    /\ procs[p].pc = "idle"
    /\ (R.embFault \/ Failed(R.save)) => CanFail
    /\ db' = R.db
    /\ disk' = R.disk
    /\ procs' = [procs EXCEPT ![p] =
                    [IdleProc EXCEPT !.op = opname, !.pc = "done", !.ret = R.ret, !.arg = arg,
                                     !.status = code, !.req = req]]
    /\ faults' = Bump(R.embFault, R.save)
    /\ last' = Last(opname, R.save)
    /\ UNCHANGED <<phase, sessions, clock, nextId>>
    /\ UNCHANGED webvars

Atomic(p, opname, arg, R) == AtomicReq(p, opname, arg, R, NoReq, 0)

UpdateContent(p, id, text, embOk, outcome) ==
    Atomic(p, "update", [NoArg EXCEPT !.id = id, !.text = Some(text)],
           update_faiss_document(db, disk, id, text, embOk, outcome))

UpdateRecommendation(p, id, status, outcome) ==
    Atomic(p, "rec", [NoArg EXCEPT !.id = id, !.rec = status],
           update_recommendation_status(db, disk, id, status, outcome))

DeleteMessage(p, id, outcome) ==
    Atomic(p, "delete", [NoArg EXCEPT !.id = id],
           delete_faiss_document(db, disk, id, outcome))

AiUpdate(p, id, txt, idx, rec, embOk, outcome) ==
    Atomic(p, "ai", [id |-> id, text |-> txt, idx |-> idx, rec |-> rec],
           ai_update_document(db, disk, id, txt, idx, rec, embOk, outcome))


\* ------------------------------------------------------------------ reads
\* list.sort(key=lambda x: x[0]) is stable: an entry goes after every entry
\* whose timestamp string is not greater.
RECURSIVE InsertByTime(_, _)
InsertByTime(sorted, x) ==
    IF sorted = <<>> THEN <<x>>
    ELSE IF StrLess(x.metadata.time, Head(sorted).metadata.time) THEN <<x>> \o sorted
    ELSE <<Head(sorted)>> \o InsertByTime(Tail(sorted), x)

RECURSIVE SortByTime(_)
SortByTime(s) ==
    IF s = <<>> THEN <<>>
    ELSE InsertByTime(SortByTime(SubSeq(s, 1, Len(s) - 1)), s[Len(s)])

StoreOrder(s) == s

SortMessages(s) == SortByTime(s)

\* 272-287: one ChatMessageOutput.  evaluation_indices <<>> stands for None.
ChatMessageOutput(e) ==
    [message_id |-> e.id,
     page_content |-> e.page_content,
     role |-> IF e.metadata.message_role \in Roles THEN e.metadata.message_role ELSE "user",
     timestamp |-> e.metadata.time,
     user_id |-> e.metadata.user_id,
     evaluation_indices |->
        IF e.metadata.evaluation_bitmask # 0
        THEN convert_bitmask_to_indices(e.metadata.evaluation_bitmask) ELSE <<>>,
     recommendation_status |-> e.metadata.recommendation_status]

\* get_conversation_history_by_session, 249-287: the messages of the response.
HistoryMessages(d, session_id, user_id) ==
    LET sel == SelectSeq(d.dict, LAMBDA e : e.metadata.session_id = session_id
                                           /\ e.metadata.user_id = user_id)
        ord == SortMessages(sel)
    IN  [i \in 1..Len(ord) |-> ChatMessageOutput(ord[i])]

\* A history that gives up when the session row is missing.
history_needs_session(d, sess, session_id, user_id) ==
    LET found == sess[session_id].exists /\ sess[session_id].user_id = user_id
        msgs == IF found THEN HistoryMessages(d, session_id, user_id) ELSE <<>>
    IN  [raised |-> ~d.init \/ ~found,
         session_id |-> session_id, user_id |-> user_id,
         has_title |-> found,
         title |-> IF found THEN sess[session_id].title ELSE <<>>,
         has_topics |-> FALSE,
         messages |-> msgs, total_messages |-> Len(msgs)]

\* get_conversation_history_by_session, 232-247 and 289-296.  has_title and
\* has_topics FALSE: the response carries null; the sessions of the model
\* have no topics.
get_conversation_history_by_session(d, sess, session_id, user_id) ==
    LET found == sess[session_id].exists /\ sess[session_id].user_id = user_id
        msgs == HistoryMessages(d, session_id, user_id)
    IN  [raised |-> ~d.init,
         session_id |-> session_id, user_id |-> user_id,
         has_title |-> found,
         title |-> IF found THEN sess[session_id].title ELSE <<>>,
         has_topics |-> FALSE,
         messages |-> msgs, total_messages |-> Len(msgs)]

\* get_sessions_by_keyword, 355-367: the sessions with a matching message.
KeywordMatchExact(e, user_id, keyword) ==
    e.metadata.user_id = user_id /\ Contains(e.page_content, keyword)

KeywordMatch(e, user_id, keyword) ==
    e.metadata.user_id = user_id /\ Contains(LowerStr(e.page_content), LowerStr(keyword))

matching_session_ids(d, user_id, keyword) ==
    {d.dict[i].metadata.session_id :
        i \in {j \in 1..Len(d.dict) : KeywordMatch(d.dict[j], user_id, keyword)}}

\* get_sessions_by_keyword, 371-396: the summaries, as a set (their order
\* by modification time is not modelled).
get_sessions_by_keyword(d, sess, user_id, keyword) ==
    {[session_id |-> sid, title |-> sess[sid].title,
      message_count |-> Cardinality({j \in 1..Len(d.dict) :
                            d.dict[j].metadata.session_id = sid
                            /\ d.dict[j].metadata.user_id = user_id})] :
        sid \in {x \in matching_session_ids(d, user_id, keyword) :
                    sess[x].exists /\ sess[x].user_id = user_id}}

\* similarity_search_with_score: index positions by ascending distance to
\* the query vector (equal distances in index order), at most k of them,
\* each with the document index_to_docstore_id names.
RECURSIVE RankFrom(_, _, _)
RankFrom(index, qv, left) ==
    IF left = {} THEN <<>>
    ELSE LET best == CHOOSE i \in left :
                        \A j \in left : L2(index[i], qv) < L2(index[j], qv)
                                        \/ (L2(index[i], qv) = L2(index[j], qv) /\ i <= j)
         IN  <<best>> \o RankFrom(index, qv, left \ {best})

similarity_search_with_score(d, query, k) ==
    LET ranked == RankFrom(d.index, Embed(query), 1..Len(d.index))
        top == Prefix(ranked, k)
    IN  [i \in 1..Len(top) |->
            [doc |-> DictGet(d, d.i2d[top[i]]), score |-> L2(d.index[top[i]], Embed(query))]]

Max(a, b) == IF a >= b THEN a ELSE b

\* 312-319: the first stored entry with this content and metadata that was
\* not returned yet; 0 when there is none.
FoundDocId(d, doc, seen) ==
    LET hits == {i \in 1..Len(d.dict) :
                    /\ d.dict[i].page_content = doc.page_content
                    /\ d.dict[i].metadata = doc.metadata
                    /\ d.dict[i].id \notin seen}
    IN  IF hits = {} THEN 0
        ELSE d.dict[CHOOSE i \in hits : \A j \in hits : i <= j].id

SessionFilterNoUser(md, session_id, user_id) == md.session_id = session_id

SessionFilter(md, session_id, user_id) ==
    md.session_id = session_id /\ md.user_id = user_id

\* schema.SessionSearchResult (schema.py 64-68): the fields without a default.
SessionSearchResultRequired == {"message_id", "page_content", "metadata", "score"}

\* 324-332: the keyword arguments the constructor is called with.
SessionSearchResultGiven ==
    {"message_id", "page_content", "score", "timestamp", "message_role",
     "evaluation_indices", "recommendation_status"}

\* pydantic builds the model when every required field is given (fields it
\* does not know are ignored) and raises ValidationError otherwise.
SessionSearchResultValid == SessionSearchResultRequired \subseteq SessionSearchResultGiven

\* 305-337: the loop over the candidates.  raised: the constructor of 324
\* raised, for the stored message `on`.
RECURSIVE SearchLoop(_, _, _, _, _, _, _, _)
SearchLoop(d, cands, i, session_id, user_id, k, results, seen) ==
    IF i > Len(cands) THEN [raised |-> FALSE, on |-> 0, results |-> results]
    ELSE LET c == cands[i]
             found == IF SessionFilter(c.doc.metadata, session_id, user_id)
                      THEN FoundDocId(d, c.doc, seen) ELSE 0
             r == [message_id |-> found,
                   page_content |-> c.doc.page_content,
                   score |-> c.score,
                   timestamp |-> c.doc.metadata.time,
                   message_role |-> c.doc.metadata.message_role,
                   evaluation_indices |->
                      IF c.doc.metadata.evaluation_bitmask # 0
                      THEN convert_bitmask_to_indices(c.doc.metadata.evaluation_bitmask)
                      ELSE <<>>,
                   recommendation_status |-> c.doc.metadata.recommendation_status]
             results1 == IF found # 0 THEN Append(results, r) ELSE results
             seen1 == IF found # 0 THEN seen \cup {found} ELSE seen
         IN  IF found # 0 /\ ~SessionSearchResultValid
             THEN [raised |-> TRUE, on |-> found, results |-> <<>>]
             ELSE IF Len(results1) >= k
             THEN [raised |-> FALSE, on |-> 0, results |-> results1]
             ELSE SearchLoop(d, cands, i + 1, session_id, user_id, k, results1, seen1)

\* search_faiss_session, for an initialised store.
search_faiss_session(d, session_id, user_id, query, k) ==
    LET k_fetch == Max(k * K_FETCH_FACTOR, K_FETCH_MIN)
        candidates == similarity_search_with_score(d, query, k_fetch)
        R == SearchLoop(d, candidates, 1, session_id, user_id, k, <<>>, {})
    IN  [R EXCEPT !.results = Prefix(@, k)]


\* ------------------------------------------------------------ request inputs
DocInput(c, s, u, r) ==
    [page_content |-> c, session_id |-> s, user_id |-> u, message_role |-> r,
     target_message_id |-> NoTarget, evaluation_indices |-> <<>>,
     recommendation_status |-> "None"]

Texts == {TxtA, TxtAb}

Owners == {<<1, 1>>, <<2, 1>>, <<1, 2>>}

\* The user of session 1 writes; every owner receives AI answers.
SeqDocs ==
    {DocInput(c, 1, 1, "user") : c \in Texts}
        \cup {DocInput(c, o[1], o[2], "optimize") : c \in Texts, o \in Owners}

SameOwner(x, y) == x.session_id = y.session_id /\ x.user_id = y.user_id

SeqBatches ==
    {<<x>> : x \in SeqDocs}
        \cup {<<q[1], q[2]>> : q \in {r \in SeqDocs \X SeqDocs : SameOwner(r[1], r[2])}}

MessageIds == 1..MaxIds

\* ------------------------------------------------------------ specifications
\* One request at a time, no failures: what the operations compute.
Next ==
    \/ Startup(TRUE, "ok")
    \/ \E b \in SeqBatches, dt \in {0, 1} : AppendStart(1, b, dt)
    \/ \E dt \in {0, 1} : AppendLookup(1, dt)
    \/ AppendEmbed(1, TRUE, "ok")
    \/ AppendCommit(1, "ok")
    \/ \E id \in MessageIds, text \in Texts : UpdateContent(1, id, text, TRUE, "ok")
    \/ \E id \in MessageIds : DeleteMessage(1, id, "ok")
    \/ Respond(1)

Spec == Init /\ [][Next]_vars


\* ------------------------------------------- failures and restarts
\* One request at a time; the embedding provider and the disk may fail, the
\* process may restart, and the startup hook may run twice.
DurDocs == {DocInput(TxtA, 1, 1, "user"), DocInput(TxtAb, 1, 1, "optimize")}

DurBatches ==
    {<<d>> : d \in DurDocs}
        \cup {<<DocInput(TxtA, 1, 1, "user"), DocInput(TxtAb, 1, 1, "optimize")>>}

AiArgs ==
    {[text |-> Some(TxtAb), idx |-> Absent, rec |-> "absent"],
     [text |-> Absent, idx |-> Some(<<1, 3>>), rec |-> "like"]}

DurIds == {1, 2}

NextDur ==
    \/ \E embOk \in BOOLEAN, outcome \in SaveOutcomes : Startup(embOk, outcome)
    \/ \E embOk \in BOOLEAN, outcome \in SaveOutcomes : StartupAgain(embOk, outcome)
    \/ Restart
    \/ \E batch \in DurBatches : AppendStart(1, batch, 0)
    \/ AppendLookup(1, 0)
    \/ \E embOk \in BOOLEAN, outcome \in SaveOutcomes : AppendEmbed(1, embOk, outcome)
    \/ \E outcome \in SaveOutcomes : AppendCommit(1, outcome)
    \/ \E id \in DurIds, embOk \in BOOLEAN, outcome \in SaveOutcomes :
          UpdateContent(1, id, TxtAb, embOk, outcome)
    \/ \E id \in DurIds, outcome \in SaveOutcomes :
          UpdateRecommendation(1, id, "like", outcome)
    \/ \E id \in DurIds, outcome \in SaveOutcomes : DeleteMessage(1, id, outcome)
    \/ \E id \in DurIds, a \in AiArgs, embOk \in BOOLEAN, outcome \in SaveOutcomes :
          AiUpdate(1, id, a.text, a.idx, a.rec, embOk, outcome)
    \/ Respond(1)

SpecDur == Init /\ [][NextDur]_vars

\* ------------------------------------------------ concurrent requests
\* Request coroutines on one event loop: a step runs from one await to the
\* next, and any coroutine may take the next step.
ConcBatches == {<<DocInput(TxtA, 1, 1, "user")>>, <<DocInput(TxtAb, 1, 1, "user")>>}

\* Appends only, of one message each, to session 1 of user 1.
NextAppends ==
    \/ Startup(TRUE, "ok")
    \/ \E p \in Procs, batch \in ConcBatches, dt \in 0..1 : AppendStart(p, batch, dt)
    \/ \E p \in Procs, dt \in 0..1 : AppendLookup(p, dt)
    \/ \E p \in Procs : AppendEmbed(p, TRUE, "ok")
    \/ \E p \in Procs : AppendCommit(p, "ok")
    \/ \E p \in Procs : Respond(p)

SpecAppends == Init /\ [][NextAppends]_vars

\* Every mutating operation, interleaved; the embedding provider may fail.
NextConc ==
    \/ Startup(TRUE, "ok")
    \/ \E p \in Procs, batch \in ConcBatches : AppendStart(p, batch, 0)
    \/ \E p \in Procs : AppendLookup(p, 0)
    \/ \E p \in Procs, embOk \in BOOLEAN : AppendEmbed(p, embOk, "ok")
    \/ \E p \in Procs : AppendCommit(p, "ok")
    \/ \E p \in Procs, id \in DurIds, embOk \in BOOLEAN : UpdateContent(p, id, TxtAb, embOk, "ok")
    \/ \E p \in Procs, id \in DurIds : UpdateRecommendation(p, id, "like", "ok")
    \/ \E p \in Procs, id \in DurIds : DeleteMessage(p, id, "ok")
    \/ \E p \in Procs, id \in DurIds, embOk \in BOOLEAN :
          AiUpdate(p, id, Some(TxtA), Absent, "absent", embOk, "ok")
    \/ \E p \in Procs : Respond(p)

SpecConc == Init /\ [][NextConc]_vars

\* ------------------------------------------------------------ the HTTP layer
\* security.generate_hmac: the MAC of the data under the configured secret.
\* A MAC made with another key or of other data is another value.
\* A signature is [key, data, alt]: alt # 0 stands for data that differs.
generate_hmac(data) == [key |-> "secret", data |-> data, alt |-> 0]

verify_hmac_any(data, received_signature, secretSet) == received_signature # NoSig

\* security.verify_hmac_signature: false without a signature or a secret.
verify_hmac_signature(data, received_signature, secretSet) ==
    /\ received_signature # NoSig
    /\ secretSet
    /\ received_signature = generate_hmac(data)

\* security.serialize_pydantic_for_hmac on an AIMessageUpdateRequest:
\* model_dump() written with sorted keys.
serialize_pydantic_for_hmac(a) ==
    [message_id |-> a.id, new_evaluation_indices |-> a.idx,
     new_page_content |-> a.text, new_recommendation_status |-> a.rec]

\* The signatures a client may send with a payload: the right one, the MAC
\* of another payload, and one made without the secret.
Sigs(payload) ==
    {generate_hmac(payload),
     [generate_hmac(payload) EXCEPT !.alt = 1],
     [generate_hmac(payload) EXCEPT !.key = "other"]}

\* A router raises HTTPException before it calls into crud.
Reject(p, req, code) ==
    /\ phase = "run"
    /\ procs[p].pc = "idle"
    /\ procs' = [procs EXCEPT ![p] =
                    [IdleProc EXCEPT !.op = "rejected", !.pc = "done",
                                     !.status = code, !.req = req]]
    /\ last' = Last("rejected", "none")
    /\ UNCHANGED <<phase, db, disk, sessions, clock, nextId, faults>>
    /\ UNCHANGED webvars

\* POST /ai-update, router.py 224-250.
HttpAiUpdate(p, secretSet, sig, a, embOk, outcome) ==
    LET payload == serialize_pydantic_for_hmac(a)
        req == [ep |-> "ai-update", caller |-> 0, secret |-> secretSet, sig |-> sig,
                payload |-> payload]
        R == ai_update_document(db, disk, a.id, a.text, a.idx, a.rec, embOk, outcome)
    IN  IF ~secretSet THEN Reject(p, req, 500)
        ELSE IF ~verify_hmac_signature(payload, sig, secretSet) THEN Reject(p, req, 403)
        ELSE AtomicReq(p, "ai", a, R, req, IF R.ret.ok THEN 200 ELSE 500)

\* POST /add with an X-Signature-HMAC-SHA256 header, router.py 16-71:
\* get_current_user_or_ai needs the secret; serialize_pydantic_for_hmac is
\* then called on the list of documents, which has no model_dump, and the
\* handler answers 400 before it looks at the signature.
HttpAddAi(p, secretSet, sig, batch) ==
    LET req == [ep |-> "add", caller |-> 0, secret |-> secretSet, sig |-> sig, payload |-> batch]
    IN  /\ sig # NoSig
        /\ IF ~secretSet THEN Reject(p, req, 500) ELSE Reject(p, req, 400)

\* POST /add with a bearer token, router.py 72-98: every document must carry
\* the caller's user_id; then add_faiss_documents runs.
HttpAddUser(p, caller, batch, dt) ==
    LET req == [NoReq EXCEPT !.ep = "add", !.caller = caller]
    IN  IF \E k \in 1..Len(batch) : batch[k].user_id # caller
        THEN Reject(p, req, 403)
        ELSE IF batch = <<>> THEN Reject(p, req, 400)
        ELSE AppendStart(p, batch, dt)

\* PATCH /message, router.py 181-201.
HttpPatchMessage(p, caller, id, text, embOk, outcome) ==
    LET req == [NoReq EXCEPT !.ep = "patch", !.caller = caller]
        R == update_faiss_document(db, disk, id, text, embOk, outcome)
    IN  IF ~db.init THEN Reject(p, req, 503)
        ELSE IF id \notin DictIds(db) THEN Reject(p, req, 404)
        ELSE IF DictGet(db, id).metadata.user_id # caller THEN Reject(p, req, 403)
        ELSE AtomicReq(p, "update", [NoArg EXCEPT !.id = id, !.text = Some(text)], R, req,
                       IF R.ret.ok THEN 200 ELSE 500)

\* DELETE /message/{message_id}, router.py 203-222.
HttpDeleteMessage(p, caller, id, outcome) ==
    LET req == [NoReq EXCEPT !.ep = "delete", !.caller = caller]
        R == delete_faiss_document(db, disk, id, outcome)
    IN  IF ~db.init THEN Reject(p, req, 503)
        ELSE IF id \notin DictIds(db) THEN Reject(p, req, 404)
        ELSE IF DictGet(db, id).metadata.user_id # caller THEN Reject(p, req, 403)
        ELSE AtomicReq(p, "delete", [NoArg EXCEPT !.id = id], R, req,
                       IF R.ret.ok THEN 200 ELSE 500)

\* POST /preference/submit, preference_router.py 48-108: the AI server is
\* told first; when it answered, update_recommendation_status is called and
\* its result only logged.
HttpPreferenceSubmit(p, caller, id, rating, aiOk, outcome) ==
    LET req == [NoReq EXCEPT !.ep = "preference", !.caller = caller]
        R == update_recommendation_status(db, disk, id, rating, outcome)
    IN  IF ~aiOk THEN Reject(p, req, 502)
        ELSE AtomicReq(p, "rec", [NoArg EXCEPT !.id = id, !.rec = rating], R, req, 200)

HttpAiArgs ==
    {[id |-> id, text |-> a.text, idx |-> a.idx, rec |-> a.rec] :
        id \in DurIds, a \in AiArgs}

\* Users write into their own session and into the other user's.
HttpBatches ==
    {<<DocInput(TxtA, 1, 1, "user")>>, <<DocInput(TxtAb, 2, 1, "user")>>,
     <<DocInput(TxtAb, 2, 2, "user")>>, <<DocInput(TxtA, 1, 2, "optimize")>>,
     <<DocInput(TxtA, 1, 1, "user"), DocInput(TxtAb, 1, 1, "optimize")>>}

\* One request at a time through the routers; no failures.
NextHttp ==
    \/ Startup(TRUE, "ok")
    \/ \E caller \in UserIds, batch \in HttpBatches : HttpAddUser(1, caller, batch, 0)
    \/ \E secretSet \in BOOLEAN, batch \in DurBatches :
          \E sig \in Sigs(batch) : HttpAddAi(1, secretSet, sig, batch)
    \/ AppendLookup(1, 0)
    \/ AppendEmbed(1, TRUE, "ok")
    \/ AppendCommit(1, "ok")
    \/ \E caller \in UserIds, id \in DurIds : HttpPatchMessage(1, caller, id, TxtAb, TRUE, "ok")
    \/ \E caller \in UserIds, id \in DurIds : HttpDeleteMessage(1, caller, id, "ok")
    \/ \E caller \in UserIds, id \in DurIds, aiOk \in BOOLEAN :
          HttpPreferenceSubmit(1, caller, id, "like", aiOk, "ok")
    \/ \E secretSet \in BOOLEAN, a \in HttpAiArgs :
          \E sig \in Sigs(serialize_pydantic_for_hmac(a)) :
              HttpAiUpdate(1, secretSet, sig, a, TRUE, "ok")
    \/ Respond(1)

SpecHttp == Init /\ [][NextHttp]_vars

\* ------------------------------------------------------- session rows
\* PUT /sessions/{session_id}, session_service.update_session: the owner
\* sets any title.
UpdateSession(s, title) ==
    /\ phase = "run"
    /\ Quiescent
    /\ sessions[s].exists
    /\ sessions[s].title # title
    /\ sessions' = [sessions EXCEPT ![s].title = title]
    /\ last' = Last("update_session", "none")
    /\ UNCHANGED <<phase, db, disk, clock, nextId, procs, faults>>
    /\ UNCHANGED webvars

TitleDocs ==
    {DocInput(TxtA, 1, 1, "user"), DocInput(TxtAb, 1, 1, "user"),
     DocInput(TxtAb, 1, 1, "optimize"), DocInput(TxtA, 2, 2, "user")}

TitleBatches ==
    {<<d>> : d \in TitleDocs}
        \cup {<<DocInput(TxtAb, 1, 1, "optimize"), DocInput(TxtA, 1, 1, "user")>>,
              <<DocInput(TxtA, 1, 1, "user"), DocInput(TxtAb, 1, 1, "user")>>}

\* Appends and title changes by the owner, one request at a time.
NextTitle ==
    \/ Startup(TRUE, "ok")
    \/ \E batch \in TitleBatches, dt \in 0..1 : AppendStart(1, batch, dt)
    \/ \E dt \in 0..1 : AppendLookup(1, dt)
    \/ AppendEmbed(1, TRUE, "ok")
    \/ AppendCommit(1, "ok")
    \/ \E s \in SessionIds, title \in {PLACEHOLDER_TITLE, TxtB} : UpdateSession(s, title)
    \/ Respond(1)

SpecTitle == Init /\ [][NextTitle]_vars

\* ------------------------------------------------------- evaluation indices
MaxLen == 2
MaxCalls == 3

\* Question indices at and around the ends of 1..30.
IndexValues == {0, 1, 30, 31}

RECURSIVE SeqsUpTo(_, _)
SeqsUpTo(S, n) ==
    IF n = 0 THEN {<<>>}
    ELSE LET shorter == SeqsUpTo(S, n - 1)
         IN  shorter \cup {Append(q, x) : q \in shorter, x \in S}

IndexLists == SeqsUpTo(IndexValues, MaxLen) \cup {<<5, 31, 0, 12>>, <<5, 12>>, <<12, 5, 5>>, <<-1, 2>>}

EvalDoc(r, xs) == [DocInput(TxtA, 1, 1, r) EXCEPT !.evaluation_indices = xs]

EvalBatches ==
    {<<EvalDoc("optimize", xs)>> : xs \in IndexLists}
        \cup {<<EvalDoc("user", <<>>)>>, <<EvalDoc("user", <<2, 31>>), EvalDoc("report", <<30, 1>>)>>}

\* Appends with initial evaluation indices and AI updates of the indices,
\* one request at a time, no failures.
NextEval ==
    \/ Startup(TRUE, "ok")
    \/ \E batch \in EvalBatches : AppendStart(1, batch, 0)
    \/ AppendLookup(1, 0)
    \/ AppendEmbed(1, TRUE, "ok")
    \/ AppendCommit(1, "ok")
    \/ \E id \in DurIds, xs \in IndexLists :
          AiUpdate(1, id, Absent, Some(xs), "absent", TRUE, "ok")
    \/ Respond(1)

SpecEval == Init /\ [][NextEval]_vars

\* ------------------------------------------------------- message updates
FrameDocs ==
    {DocInput(TxtA, 1, 1, "user"), DocInput(TxtA, 2, 1, "optimize"),
     DocInput(TxtAb, 1, 2, "report")}

FrameBatches ==
    {<<d>> : d \in FrameDocs}
        \cup {<<DocInput(TxtA, 1, 1, "user"), DocInput(TxtAb, 1, 1, "optimize")>>}

FrameAiArgs ==
    {[text |-> Some(TxtB), idx |-> Some(<<1, 3>>), rec |-> "absent"],
     [text |-> Absent, idx |-> Absent, rec |-> "none"]}

\* Appends at different times for different owners, then every kind of
\* update, in any order; the embedding of a changed content may fail.
NextFrame ==
    \/ Startup(TRUE, "ok")
    \/ \E batch \in FrameBatches, dt \in {0, 1} : AppendStart(1, batch, dt)
    \/ AppendLookup(1, 0)
    \/ AppendEmbed(1, TRUE, "ok")
    \/ AppendCommit(1, "ok")
    \/ \E id \in DurIds, embOk \in BOOLEAN : UpdateContent(1, id, TxtB, embOk, "ok")
    \/ \E id \in DurIds : UpdateRecommendation(1, id, "dislike", "ok")
    \/ \E id \in DurIds, a \in FrameAiArgs : AiUpdate(1, id, a.text, a.idx, a.rec, TRUE, "ok")
    \/ Respond(1)

SpecFrame == Init /\ [][NextFrame]_vars

\* ------------------------------------------------- the store is missing
\* POST /add, router.py 93-113: the answer to what add_faiss_documents did.
\* It raises ValueError only for a missing store (crud.py 94-95).
HttpAddStatus(storeReady, ret) ==
    IF ret.kind = "ids" THEN 201 ELSE IF ~storeReady THEN 503 ELSE 500

\* POST /history, router.py 115-136.
HttpHistoryStatus(d, sess, caller, session_id, user_id) ==
    IF caller # user_id THEN 403
    ELSE IF get_conversation_history_by_session(d, sess, session_id, user_id).raised THEN 503
    ELSE 200

\* POST /search/session, router.py 138-159; crud.py 299-300 raises ValueError
\* for a missing store, and so does the result constructor.
HttpSearchStatus(d, caller, session_id, user_id, query, k) ==
    IF caller # user_id THEN 403
    ELSE IF ~d.init THEN 503
    ELSE IF search_faiss_session(d, session_id, user_id, query, k).raised THEN 503
    ELSE 200

\* POST /search/keyword/sessions, router.py 161-179; crud.py 345-346.
HttpKeywordStatus(d, keyword) ==
    IF keyword = <<>> THEN 400 ELSE IF ~d.init THEN 503 ELSE 200

DownBatches == {<<DocInput(TxtA, 1, 1, "user")>>, <<DocInput(TxtAb, 1, 1, "optimize")>>}

DownAiArgs == {[id |-> 1, text |-> Some(TxtAb), idx |-> Some(<<1, 3>>), rec |-> "like"]}

\* Requests through the routers while the embedding provider may be
\* unavailable at the start.
NextDown ==
    \/ \E embOk \in BOOLEAN : Startup(embOk, "ok")
    \/ Restart
    \/ \E caller \in UserIds, batch \in DownBatches : HttpAddUser(1, caller, batch, 0)
    \/ AppendLookup(1, 0)
    \/ AppendEmbed(1, TRUE, "ok")
    \/ AppendCommit(1, "ok")
    \/ \E caller \in UserIds, id \in DurIds : HttpPatchMessage(1, caller, id, TxtB, TRUE, "ok")
    \/ \E caller \in UserIds, id \in DurIds : HttpDeleteMessage(1, caller, id, "ok")
    \/ \E secretSet \in BOOLEAN, a \in DownAiArgs :
          \E sig \in Sigs(serialize_pydantic_for_hmac(a)) :
              HttpAiUpdate(1, secretSet, sig, a, TRUE, "ok")
    \/ Respond(1)

SpecDown == Init /\ [][NextDown]_vars

\* ------------------------------------------------------ session deletion
\* session_service.delete_session: the row goes; the upload directory and
\* the AI server are told, the memory store is not touched.
DeleteSession(s) ==
    /\ phase = "run"
    /\ Quiescent
    /\ sessions[s].exists
    /\ sessions' = [sessions EXCEPT ![s] = [exists |-> FALSE, user_id |-> 0, title |-> <<>>]]
    /\ last' = Last("delete_session", "none")
    /\ upload_dir' = [upload_dir EXCEPT ![s] = {}]
    /\ UNCHANGED <<phase, db, disk, clock, nextId, procs, faults>>
    /\ UNCHANGED <<users, calls, grants, upload_resp>>

SessDocs ==
    {DocInput(TxtA, 1, 1, "user"), DocInput(TxtAb, 1, 1, "optimize"),
     DocInput(TxtAb, 2, 1, "optimize"), DocInput(TxtB, 2, 2, "user"),
     DocInput(TxtA, 1, 2, "report")}

SessBatches ==
    {<<d>> : d \in SessDocs}
        \cup {<<DocInput(TxtA, 1, 1, "user"), DocInput(TxtAb, 1, 1, "optimize")>>}

\* Appends and content updates while sessions are deleted.
NextSess ==
    \/ Startup(TRUE, "ok")
    \/ \E batch \in SessBatches, dt \in {0, 1} : AppendStart(1, batch, dt)
    \/ AppendLookup(1, 0)
    \/ AppendEmbed(1, TRUE, "ok")
    \/ AppendCommit(1, "ok")
    \/ \E id \in DurIds : UpdateContent(1, id, TxtB, TRUE, "ok")
    \/ \E s \in SessionIds : DeleteSession(s)
    \/ Respond(1)

SpecSess == Init /\ [][NextSess]_vars

\* ------------------------------------------- evaluations and recommendations
MarkDocs ==
    {DocInput(TxtA, 1, 1, "user"),
     [DocInput(TxtAb, 1, 1, "optimize") EXCEPT !.evaluation_indices = <<2>>,
                                               !.recommendation_status = "dislike"]}

MarkBatches == {<<d>> : d \in MarkDocs}

MarkAiArgs ==
    {[text |-> Absent, idx |-> Some(<<1, 3, 30>>), rec |-> "absent"],
     [text |-> Absent, idx |-> Some(<<>>), rec |-> "absent"],
     [text |-> Absent, idx |-> Absent, rec |-> "like"],
     [text |-> Absent, idx |-> Absent, rec |-> "none"]}

\* Appends, then evaluation and recommendation updates in any order, also
\* for ids that are not stored.
NextMark ==
    \/ Startup(TRUE, "ok")
    \/ \E batch \in MarkBatches : AppendStart(1, batch, 0)
    \/ AppendLookup(1, 0)
    \/ AppendEmbed(1, TRUE, "ok")
    \/ AppendCommit(1, "ok")
    \/ \E id \in DurIds, status \in {"like", "dislike"} :
          UpdateRecommendation(1, id, status, "ok")
    \/ \E id \in DurIds, a \in MarkAiArgs :
          AiUpdate(1, id, a.text, a.idx, a.rec, TRUE, "ok")
    \/ \E id \in DurIds : UpdateContent(1, id, TxtB, TRUE, "ok")
    \/ Respond(1)

SpecMark == Init /\ [][NextMark]_vars

\* ---------------------------------------------------------- refresh tokens
\* The clock counts half seconds (IsoFormat); a JWT's exp is in whole seconds.
Seconds(t) == t \div 2

\* security.create_refresh_token: the claims given, exp and type "refresh".
\* exp is the second of utcnow plus the configured lifetime; the lifetime is
\* the same for every token and is left out of the number.
create_refresh_token(data, now) ==
    [sub |-> data.sub, exp |-> Seconds(now), type |-> "refresh", signed |-> TRUE]

\* security.create_access_token: no type claim.
create_access_token(data, now) ==
    [sub |-> data.sub, exp |-> Seconds(now), type |-> "absent", signed |-> TRUE]

\* A token signed with another key.
ForgedToken == [sub |-> 1, exp |-> 0, type |-> "refresh", signed |-> FALSE]

\* security.decode_token: the payload, or None (ok = FALSE) on a JWTError.
\* The lifetime is counted in days: no token expires within MaxTime.
decode_token(token) == [ok |-> token.signed, data |-> token]

\* An answer of /refresh-token: the token presented, the status, and whether
\* the body carries an access token.
Answer(token, code) == [token |-> token, status |-> code, access |-> code = 200]

InFlight == Cardinality({p \in Procs : calls[p].pc # "idle"})

\* user_router.login, for a user whose password was right: a new refresh
\* token is stored in the user's row and sent as the cookie.
Login(u, dt) ==
    /\ phase = "run"
    /\ clock + dt <= MaxTime
    /\ clock' = clock + dt
    /\ users' = [users EXCEPT ![u].refresh_token = create_refresh_token([sub |-> u], clock')]
    /\ UNCHANGED <<sessions, calls, grants, upload_dir, upload_resp>>
    /\ UNCHANGED storevars

\* user_service.update_user_refresh_token: the row is read, set and committed.
update_user_refresh_token(rows, user_id, refresh_token) ==
    IF user_id \in DOMAIN rows
    THEN [rows EXCEPT ![user_id].refresh_token = refresh_token]
    ELSE rows

\* user_router.logout, for the bearer of a valid access token of user u.
Logout(u) ==
    /\ phase = "run"
    /\ users[u].refresh_token # NoToken
    /\ users' = update_user_refresh_token(users, u, NoToken)
    /\ UNCHANGED <<sessions, clock, calls, grants, upload_dir, upload_resp>>
    /\ UNCHANGED storevars

\* refresh_access_token up to the await of 154: the cookie (92-105), the
\* decoding and the type (122-138), the sub claim (141-151).
RefreshStart(p, token) ==
    LET token_data == decode_token(token)
        bad == \/ token = NoToken
               \/ ~token_data.ok
               \/ token_data.data.type # "refresh"
    IN  /\ phase = "run"
        /\ calls[p].pc = "idle"
        /\ Len(grants) + InFlight < MaxCalls
        /\ IF bad
           THEN /\ grants' = Append(grants, Answer(token, 401))
                /\ UNCHANGED calls
           ELSE /\ calls' = [calls EXCEPT ![p] =
                                [IdleCall EXCEPT !.pc = "lookup", !.token = token,
                                                 !.user_id = token_data.data.sub]]
                /\ UNCHANGED grants
        /\ UNCHANGED <<sessions, clock, users, upload_dir, upload_resp>>
        /\ UNCHANGED storevars

\* 154-189: the row get_user_by_id returned is compared with the cookie;
\* on a match the new tokens are made, up to the await of 195 (or of 172).
RefreshLookup(p, dt) ==
    LET C == calls[p]
        found == C.user_id \in DOMAIN users
        stored == users[C.user_id].refresh_token
    IN  /\ C.pc = "lookup"
        /\ clock + dt <= MaxTime
        /\ IF ~found \/ stored = NoToken
           THEN /\ grants' = Append(grants, Answer(C.token, 401))
                /\ calls' = [calls EXCEPT ![p] = IdleCall]
                /\ UNCHANGED clock
           ELSE IF stored # C.token
           THEN /\ calls' = [calls EXCEPT ![p].pc = "clear"]
                /\ UNCHANGED <<grants, clock>>
           ELSE /\ clock' = clock + dt
                /\ calls' = [calls EXCEPT ![p].pc = "store",
                                ![p].new = create_refresh_token([sub |-> C.user_id], clock')]
                /\ UNCHANGED grants
        /\ UNCHANGED <<sessions, users, upload_dir, upload_resp>>
        /\ UNCHANGED storevars

\* 172-174: the stored token is set to None and the request answered 401.
RefreshClear(p) ==
    LET C == calls[p]
    IN  /\ C.pc = "clear"
        /\ users' = update_user_refresh_token(users, C.user_id, NoToken)
        /\ grants' = Append(grants, Answer(C.token, 401))
        /\ calls' = [calls EXCEPT ![p] = IdleCall]
        /\ UNCHANGED <<sessions, clock, upload_dir, upload_resp>>
        /\ UNCHANGED storevars

\* 195-216: the new refresh token is stored and the access token returned.
RefreshStore(p) ==
    LET C == calls[p]
    IN  /\ C.pc = "store"
        /\ users' = update_user_refresh_token(users, C.user_id, C.new)
        /\ grants' = Append(grants, Answer(C.token, 200))
        /\ calls' = [calls EXCEPT ![p] = IdleCall]
        /\ UNCHANGED <<sessions, clock, upload_dir, upload_resp>>
        /\ UNCHANGED storevars

\* The cookies a client may present: refresh tokens of the users, made at
\* any time; a forged one; an access token; none.
PresentedTokens ==
    {create_refresh_token([sub |-> u], t) : u \in UserIds, t \in {0, MaxTime}}
        \cup {ForgedToken, create_access_token([sub |-> 1], 0), NoToken}

NextAuth ==
    \/ Startup(TRUE, "ok")
    \/ \E u \in UserIds, dt \in 0..1 : Login(u, dt)
    \/ \E u \in UserIds : Logout(u)
    \/ \E p \in Procs, token \in PresentedTokens : RefreshStart(p, token)
    \/ \E p \in Procs, dt \in 0..1 : RefreshLookup(p, dt)
    \/ \E p \in Procs : RefreshClear(p)
    \/ \E p \in Procs : RefreshStore(p)

SpecAuth == Init /\ [][NextAuth]_vars

\* ------------------------------------------------------------ file uploads
MAX_FILE_COUNT == 3
MiB == 1024 * 1024
MAX_FILE_SIZE == 5 * MiB
MAX_TOTAL_SIZE == 10 * MiB

ALLOWED_EXTENSIONS ==
    {<<".", "j", "p", "g">>, <<".", "j", "p", "e", "g">>, <<".", "p", "n", "g">>,
     <<".", "p", "d", "f">>, <<".", "c", "s", "v">>, <<".", "t", "x", "t">>}

\* str.lower on the letters file names are made of here.
LowerChar(c) == IF c = "T" THEN "t" ELSE IF c = "X" THEN "x" ELSE c

\* os.path.splitext(filename)[1]: from the last dot on, unless only dots
\* come before it (a leading dot starts no extension).
splitext(filename) ==
    LET dots == {i \in 1..Len(filename) : filename[i] = "."}
        lastDot == CHOOSE i \in dots : \A j \in dots : j <= i
    IN  IF dots = {} THEN <<>>
        ELSE IF \A j \in 1..(lastDot - 1) : filename[j] = "." THEN <<>>
        ELSE SubSeq(filename, lastDot, Len(filename))

is_allowed_file(filename) ==
    LET ext == [i \in 1..Len(splitext(filename)) |-> LowerChar(splitext(filename)[i])]
    IN  ext \in ALLOWED_EXTENSIONS

\* An uploaded part: its name, its size in bytes and its content.
UploadFile(filename, size, data) == [filename |-> filename, size |-> size, data |-> data]

\* The directory after file_path was opened "wb" and data written to it.
WriteFile(dir, filename, data) ==
    {f \in dir : f.filename # filename} \cup {[filename |-> filename, data |-> data]}

RECURSIVE SaveLoop(_, _, _, _, _, _)
\* The loop of 96-120 from file i on. io = [at, kind]: the file whose write
\* raises IOError (0: none), in open (nothing is made) or in write (the file
\* was opened "wb" and is left truncated).
SaveLoop(files, i, total_size, dir, saved_files_info, io) ==
    IF i > Len(files)
    THEN [status |-> 200, dir |-> dir, uploaded_files |-> saved_files_info]
    ELSE LET file == files[i]
             Raise(code) == [status |-> code, dir |-> dir, uploaded_files |-> <<>>]
         IN  IF ~is_allowed_file(file.filename) THEN Raise(400)
             ELSE IF file.size = 0 THEN Raise(400)
             ELSE IF file.size > MAX_FILE_SIZE THEN Raise(413)
             ELSE IF total_size + file.size > MAX_TOTAL_SIZE THEN Raise(413)
             ELSE IF io.at = i
             THEN [status |-> 500,
                   dir |-> IF io.kind = "open" THEN dir
                           ELSE WriteFile(dir, file.filename, "truncated"),
                   uploaded_files |-> <<>>]
             ELSE SaveLoop(files, i + 1, total_size + file.size,
                           WriteFile(dir, file.filename, file.data),
                           Append(saved_files_info, file.filename), io)

\* file_router.upload_and_save_files for an authenticated caller.
upload_and_save_files(sess, dir, session_id, files, caller, io) ==
    LET Raise(code) == [status |-> code, dir |-> dir, uploaded_files |-> <<>>]
    IN  IF ~sess[session_id].exists THEN Raise(404)
        ELSE IF sess[session_id].user_id # caller THEN Raise(403)
        ELSE IF Len(files) > MAX_FILE_COUNT THEN Raise(413)
        ELSE SaveLoop(files, 1, 0, dir, <<>>, io)

\* POST /{session_id}/files.
UploadFiles(caller, session_id, files, io) ==
    LET R == upload_and_save_files(sessions, upload_dir[session_id], session_id, files,
                                   caller, io)
    IN  /\ phase = "run"
        /\ upload_dir' = [upload_dir EXCEPT ![session_id] = R.dir]
        /\ upload_resp' = [status |-> R.status, session_id |-> session_id,
                           files |-> files, uploaded_files |-> R.uploaded_files]
        /\ UNCHANGED <<sessions, clock, users, calls, grants>>
        /\ UNCHANGED storevars

\* Requests: one good file; a file refused after a good one, for each of the
\* reasons of 97-108; two files of 5 MiB; the same name twice; four files.
UploadRequests ==
    LET NameA == <<"a", ".", "t", "x", "t">>
        NameB == <<"b", ".", "T", "X", "T">>
        NameC == <<"c", ".", "e", "x", "e">>
        NameD == <<".", "t", "x", "t">>
        NameG == <<"g", ".", "p", "d", "f">>
        NameH == <<"h", ".", "p", "n", "g">>
        a == UploadFile(NameA, MiB, "x")
        a2 == UploadFile(NameA, MiB, "y")
        b == UploadFile(NameB, MAX_FILE_SIZE, "x")
        h == UploadFile(NameH, MAX_FILE_SIZE, "x")
    IN  {<<a>>, <<a2>>, <<b, h>>, <<a, a2>>,
         <<a, UploadFile(NameC, MiB, "x")>>,
         <<a, UploadFile(NameD, MiB, "x")>>,
         <<a, UploadFile(NameG, 0, "x")>>,
         <<a, UploadFile(NameG, MAX_FILE_SIZE + 1, "x")>>,
         <<b, h, a>>,
         <<a, b, h, a2>>}

UploadFaults == {[at |-> 0, kind |-> "none"], [at |-> 1, kind |-> "open"],
                 [at |-> 2, kind |-> "open"], [at |-> 2, kind |-> "write"]}

NextUpload ==
    \/ Startup(TRUE, "ok")
    \/ \E caller \in UserIds, s \in SessionIds, files \in UploadRequests, io \in UploadFaults :
          UploadFiles(caller, s, files, io)
    \/ \E s \in SessionIds : DeleteSession(s)

SpecUpload == Init /\ [][NextUpload]_vars

\* ------------------------------------------------------------------ claims
MsgIds(h) == {h[i].message_id : i \in 1..Len(h)}

Restrict(h, S) == SelectSeq(h, LAMBDA m : m.message_id \in S)

\* The step of an append in which aadd_documents returns the ids.
AddStep(p) ==
    /\ procs[p].pc = "embed"
    /\ procs'[p].pc \in {"commit", "done"}
    /\ procs'[p].ret.kind = "ids"

\* C1: an append of N >= 1 messages of one (session_id, user_id) returns N
\* pairwise distinct, new ids, the k-th for the k-th message; the history of
\* that session and user is then the history from before, unchanged, plus
\* exactly the N new messages, which stand in batch order; nothing changes
\* the store between the insertion and the return.
C1_AppendThenHistory ==
    [][\A p \in Procs :
        /\ (AddStep(p) /\ \A k \in 1..Len(procs[p].docs) :
                              SameOwner(procs[p].docs[k], procs[p].docs[1])) =>
            LET batch == procs[p].docs
                ids == procs'[p].ret.ids
                s == batch[1].session_id
                u == batch[1].user_id
                before == get_conversation_history_by_session(db, sessions, s, u).messages
                after == get_conversation_history_by_session(db', sessions', s, u).messages
                new == Restrict(after, SeqRange(ids))
            IN  /\ Len(ids) = Len(batch)
                /\ \A i, j \in 1..Len(ids) : i # j => ids[i] # ids[j]
                /\ SeqRange(ids) \cap DictIds(db) = {}
                /\ MsgIds(after) = MsgIds(before) \cup SeqRange(ids)
                /\ Len(after) = Len(before) + Len(batch)
                /\ Restrict(after, MsgIds(before)) = before
                /\ Len(new) = Len(batch)
                /\ \A k \in 1..Len(new) :
                      /\ new[k].message_id = ids[k]
                      /\ new[k].page_content = batch[k].page_content
        /\ (procs[p].pc = "commit" /\ procs'[p].pc = "done") =>
              (db' = db /\ procs'[p].ret = procs[p].ret)
      ]_vars

\* C1 witness: an append of two messages has returned; the history holds an
\* older message and then the two, which carry the same timestamp.
C1_Witness ==
    \E p \in Procs, s \in SessionIds, u \in UserIds :
        LET h == get_conversation_history_by_session(db, sessions, s, u).messages
        IN  /\ procs[p].pc = "done" /\ procs[p].op = "append"
            /\ procs[p].ret.kind = "ids" /\ Len(procs[p].ret.ids) = 2
            /\ Len(h) = 3
            /\ h[2].message_id = procs[p].ret.ids[1]
            /\ h[3].message_id = procs[p].ret.ids[2]
            /\ h[2].timestamp = h[3].timestamp

Queries == {TxtA, TxtAb, TxtB}

Ks == {1, 2}

\* C2: every result search_faiss_session builds is for a stored message of
\* the requested session and user, with the content that is stored: this
\* holds for the entries of a returned list and for the message on which
\* the call raised.
C2_SearchScoped ==
    db.init =>
        \A s \in SessionIds, u \in UserIds, q \in Queries, k \in Ks :
            LET R == search_faiss_session(db, s, u, q, k)
                res == R.results
            IN  /\ \A i \in 1..Len(res) :
                      /\ res[i].message_id \in DictIds(db)
                      /\ DictGet(db, res[i].message_id).metadata.session_id = s
                      /\ DictGet(db, res[i].message_id).metadata.user_id = u
                      /\ DictGet(db, res[i].message_id).page_content = res[i].page_content
                /\ R.raised =>
                      /\ R.on \in DictIds(db)
                      /\ DictGet(db, R.on).metadata.session_id = s
                      /\ DictGet(db, R.on).metadata.user_id = u

\* C2 witness: the nearest stored message is of another session and the next
\* one of another user; the search passes over both and reaches the third.
C2_Witness ==
    /\ db.init
    /\ \E s \in SessionIds, u \in UserIds, q \in Queries, k \in Ks :
          LET cands == similarity_search_with_score(db, q, 3)
              R == search_faiss_session(db, s, u, q, k)
          IN  /\ Len(cands) = 3
              /\ cands[1].doc.metadata.session_id # s
              /\ cands[1].doc.metadata.user_id = u
              /\ cands[2].doc.metadata.session_id = s
              /\ cands[2].doc.metadata.user_id # u
              /\ cands[1].score < cands[3].score
              /\ R.raised /\ R.on = cands[3].doc.id

Keywords == {<<"a">>, <<"b">>, <<"A", "B">>, <<"a", "b">>}

\* The step of a synchronous operation.
SyncStep(p, opname) ==
    procs[p].pc = "idle" /\ procs'[p].pc = "done" /\ procs'[p].op = opname

\* C10: after update_faiss_document returned true for a stored id, the id
\* is stored with the new content and its old metadata; the history shows it
\* once, with the new content; a keyword of the new content matches its
\* session (and the session is returned when the relational store has it for
\* that user); on a keyword not in the new content the message matches no more.
C10_UpdateContentVisible ==
    [][\A p \in Procs :
        (SyncStep(p, "update") /\ procs'[p].ret.kind = "bool" /\ procs'[p].ret.ok) =>
            LET id == procs'[p].arg.id
                text == procs'[p].arg.text.val
            IN  /\ id \in DictIds(db)
                /\ DictIds(db') = DictIds(db)
                /\ DictGet(db', id).page_content = text
                /\ DictGet(db', id).metadata = DictGet(db, id).metadata
                /\ LET s == DictGet(db, id).metadata.session_id
                       u == DictGet(db, id).metadata.user_id
                       h == get_conversation_history_by_session(db', sessions', s, u).messages
                       rest == FaissDelete(db', id)
                   IN  /\ Cardinality({i \in 1..Len(h) : h[i].message_id = id}) = 1
                       /\ \A i \in 1..Len(h) :
                             h[i].message_id = id => h[i].page_content = text
                       /\ \A kw \in Keywords :
                             IF Contains(LowerStr(text), LowerStr(kw))
                             THEN /\ s \in matching_session_ids(db', u, kw)
                                  /\ (sessions'[s].exists /\ sessions'[s].user_id = u) =>
                                        \E r \in get_sessions_by_keyword(db', sessions', u, kw) :
                                            r.session_id = s
                             ELSE matching_session_ids(db', u, kw)
                                      = matching_session_ids(rest, u, kw)
      ]_vars

\* C10 witness: the only message ever stored gave session 1 its title "Ab"
\* and was then updated to "a": the keyword "b" finds nothing any more.
C10_Witness ==
    \E p \in Procs :
        /\ procs[p].pc = "done" /\ procs[p].op = "update" /\ procs[p].ret.ok
        /\ procs[p].arg.id = 1
        /\ nextId = 2
        /\ sessions[1].title = TxtAb
        /\ 1 \in DictIds(db)
        /\ DictGet(db, 1).page_content = TxtA
        /\ get_sessions_by_keyword(db, sessions, 1, <<"b">>) = {}
        /\ get_sessions_by_keyword(db, sessions, 1, <<"A">>) # {}

DiskIds(dk) == {dk.pkl.dict[i].id : i \in 1..Len(dk.pkl.dict)}

DiskOk(dk) == dk.faiss.st = "ok" /\ dk.pkl.st = "ok"

Snapshot(d) == [faiss |-> FaissFile(d), pkl |-> PklFile(d)]

\* C5: when no save has failed, the store a restart loads holds the same
\* messages (ids, contents, metadata) as the store the process had before
\* the restart, and every history is the same.
C5_RestartKeepsStore ==
    (last.op = "startup" /\ last.pre.init /\ db.init /\ faults.save = 0) =>
        /\ SeqRange(db.dict) = SeqRange(last.pre.dict)
        /\ \A s \in SessionIds, u \in UserIds :
              get_conversation_history_by_session(db, sessions, s, u).messages
                  = get_conversation_history_by_session(last.pre, sessions, s, u).messages

\* The step in which an append returns or raises after its embedding await.
AppendReturn(p) ==
    procs[p].pc \in {"embed", "commit"} /\ procs'[p].pc = "done"

C7_SaveFailureKept ==
    [][\A p \in Procs :
        (procs[p].pc # "done" /\ procs'[p].pc = "done" /\ Failed(last'.save)) =>
            LET a == procs'[p].arg
                op == procs'[p].op
                ret == procs'[p].ret
            IN  /\ ret.kind # "raise"
                /\ op \in {"append", "update", "rec", "ai", "delete"}
                /\ op = "append" =>
                      /\ ret.kind = "ids" /\ ret.ids # <<>>
                      /\ SeqRange(ret.ids) \subseteq DictIds(db')
                      /\ procs[p].pc = "commit" => db' = db
                      /\ procs[p].pc = "embed" => DictIds(db') = DictIds(db) \cup SeqRange(ret.ids)
                /\ op = "update" =>
                      /\ ret = RetBool(TRUE)
                      /\ DictGet(db', a.id).page_content = a.text.val
                      /\ db' = update_faiss_document(db, disk, a.id, a.text.val, TRUE, "ok").db
                /\ op = "rec" =>
                      /\ ret = RetBool(TRUE)
                      /\ DictGet(db', a.id).metadata.recommendation_status = a.rec
                      /\ db' = update_recommendation_status(db, disk, a.id, a.rec, "ok").db
                /\ op = "ai" =>
                      /\ ret = RetBool(TRUE)
                      /\ a.text.some => DictGet(db', a.id).page_content = a.text.val
                      /\ db' = ai_update_document(db, disk, a.id, a.text, a.idx, a.rec, TRUE, "ok").db
                /\ op = "delete" =>
                      /\ ret = RetBool(TRUE)
                      /\ a.id \in DictIds(db) /\ a.id \notin DictIds(db')
                      /\ db' = delete_faiss_document(db, disk, a.id, "ok").db
      ]_vars

\* C7 witness: a delete returned true although its save failed; the message
\* is gone from memory and still in the snapshot.
C7_Witness ==
    \E p \in Procs :
        /\ procs[p].pc = "done" /\ procs[p].op = "delete" /\ last.op = "delete"
        /\ Failed(last.save)
        /\ procs[p].ret = RetBool(TRUE)
        /\ procs[p].arg.id \notin DictIds(db)
        /\ procs[p].arg.id \in DiskIds(disk)

\* C8: load_or_create_faiss_db without a store and with the embedding
\* provider: a missing or unreadable snapshot gives an empty store and a
\* save of it at once (which replaces the snapshot when it succeeds); a
\* readable snapshot is loaded as it is and nothing is saved.
C8_LoadOrCreate ==
    [][(last'.op = "startup" /\ ~db.init /\ db'.init) =>
        IF ~FilesExist(disk) \/ LoadFails(disk)
        THEN /\ db' = create_empty_db
             /\ last'.save # "none"
             /\ last'.save = "ok" => disk' = Snapshot(create_empty_db)
        ELSE /\ db'.dict = disk.pkl.dict
             /\ db'.i2d = disk.pkl.i2d
             /\ db'.index = disk.faiss.index
             /\ last'.save = "none"
             /\ disk' = disk
      ]_vars

\* C8 witness: the process had messages, the snapshot was unreadable at the
\* restart, and the startup replaced it by the snapshot of an empty store.
C8_Witness ==
    /\ last.op = "startup" /\ last.save = "ok"
    /\ last.pre.init /\ last.pre.dict # <<>>
    /\ db = create_empty_db
    /\ disk = Snapshot(create_empty_db)

\* C9: load_or_create_faiss_db with a store in memory changes neither the
\* store nor the snapshot directory, and saves nothing.
C9_InitIdempotent ==
    [][last'.op = "startup_again" =>
          (db.init /\ db' = db /\ disk' = disk /\ last'.save = "none")]_vars

\* C9 witness: the second call has returned while the directory holds
\* something else than the store in memory.
C9_Witness ==
    /\ last.op = "startup_again"
    /\ db.init /\ db.dict # <<>>
    /\ (~DiskOk(disk) \/ disk.pkl.dict # db.dict)

\* C3: when two appends of one message each, to session 1 of user 1, have
\* both returned, their ids differ, both messages are in the history, and the
\* history has one message for every id handed out: exactly 2 after two appends.
C3_ConcurrentAppends ==
    \A p, q \in Procs :
        (/\ p # q
         /\ procs[p].pc = "done" /\ procs[p].ret.kind = "ids"
         /\ procs[q].pc = "done" /\ procs[q].ret.kind = "ids") =>
            LET h == get_conversation_history_by_session(db, sessions, 1, 1).messages
            IN  /\ Len(procs[p].ret.ids) = 1 /\ Len(procs[q].ret.ids) = 1
                /\ procs[p].ret.ids[1] # procs[q].ret.ids[1]
                /\ {procs[p].ret.ids[1], procs[q].ret.ids[1]} \subseteq MsgIds(h)
                /\ Len(h) = nextId - 1
                /\ Cardinality(MsgIds(h)) = Len(h)

\* C3 witness: two appends have returned and the history has exactly 2
\* messages; message 1 was inserted first and its coroutine committed the
\* session title last, so the two ran interleaved.
C3_Witness ==
    \E p, q \in Procs :
        /\ p # q
        /\ procs[p].pc = "done" /\ procs[p].ret = RetIds(<<1>>)
        /\ procs[q].pc = "done" /\ procs[q].ret = RetIds(<<2>>)
        /\ nextId = 3
        /\ Len(get_conversation_history_by_session(db, sessions, 1, 1).messages) = 2
        /\ DictGet(db, 1).page_content = TxtA
        /\ DictGet(db, 2).page_content = TxtAb
        /\ sessions[1].title = TxtA

\* C4: between any two steps the vector index and the document store hold
\* the same ids, each once, one vector per document.
C4_IndexMatchesStore ==
    /\ IndexIds(db) = DictIds(db)
    /\ Len(db.index) = Len(db.i2d)
    /\ Len(db.i2d) = Len(db.dict)
    /\ Cardinality(DictIds(db)) = Len(db.dict)

\* C4 witness: an append is suspended at its title commit while another
\* coroutine has deleted the message it inserted.
C4_Witness ==
    \E p, q \in Procs :
        /\ procs[p].pc = "commit"
        /\ procs[q].pc = "done" /\ procs[q].op = "delete" /\ procs[q].ret = RetBool(TRUE)
        /\ procs[q].arg.id \in SeqRange(procs[p].ret.ids)
        /\ procs[q].arg.id \notin DictIds(db)
        /\ db.dict # <<>>

\* C11: update_content, update_recommendation, ai_update and delete on an id
\* that is not in the store return false, raise nothing, save nothing and
\* leave store and snapshot as they are; with a store, the history of a
\* session and user without stored messages is empty, with total 0, and
\* nothing is raised.
C11_NotFound ==
    [][/\ \A p \in Procs :
            (/\ procs[p].pc = "idle" /\ procs'[p].pc = "done"
             /\ procs'[p].op \in {"update", "rec", "ai", "delete"}
             /\ procs'[p].arg.id \notin DictIds(db)) =>
                /\ procs'[p].ret = RetBool(FALSE)
                /\ db' = db
                /\ disk' = disk
                /\ last'.save = "none"
       /\ db'.init =>
            \A s \in SessionIds, u \in UserIds :
                LET r == get_conversation_history_by_session(db', sessions', s, u)
                IN  (\A i \in 1..Len(db'.dict) :
                        ~(db'.dict[i].metadata.session_id = s
                          /\ db'.dict[i].metadata.user_id = u)) =>
                      (~r.raised /\ r.messages = <<>> /\ r.total_messages = 0)
      ]_vars

\* C11 witness: a message was appended and deleted, store and snapshot agree
\* that it is gone, and update_content on its id has returned false.
C11_Witness ==
    \E p \in Procs :
        /\ procs[p].pc = "done" /\ procs[p].op = "update"
        /\ procs[p].ret = RetBool(FALSE)
        /\ procs[p].arg.id < nextId
        /\ db.init /\ db.dict # <<>>
        /\ procs[p].arg.id \notin DictIds(db)
        /\ disk = Snapshot(db)
        /\ faults.emb = 0
        /\ get_conversation_history_by_session(db, sessions, 2, 2).total_messages = 0

\* C12: a request to /ai-update, or to /add with a signature header, whose
\* signature is not the MAC of its payload under the secret, or that arrives
\* when no secret is configured, is answered with an error before crud is
\* called: store, snapshot and session titles stay as they are.
C12_BadSignatureRejected ==
    [][\A p \in Procs :
        (/\ procs[p].pc = "idle" /\ procs'[p].pc = "done"
         /\ procs'[p].req.sig # NoSig
         /\ (~procs'[p].req.secret
             \/ procs'[p].req.sig # generate_hmac(procs'[p].req.payload))) =>
            /\ procs'[p].op = "rejected"
            /\ procs'[p].status \in {400, 403, 500}
            /\ procs'[p].ret = RetNone
            /\ db' = db
            /\ disk' = disk
            /\ sessions' = sessions
      ]_vars

\* C12 witness: /ai-update for a stored message, signed with the MAC of
\* another payload while the secret is configured, was answered 403.
C12_Witness ==
    \E p \in Procs :
        /\ procs[p].pc = "done" /\ procs[p].op = "rejected" /\ procs[p].status = 403
        /\ procs[p].req.secret
        /\ procs[p].req.sig = [generate_hmac(procs[p].req.payload) EXCEPT !.alt = 1]
        /\ procs[p].req.payload.message_id \in DictIds(db)
        /\ DictGet(db, procs[p].req.payload.message_id).page_content = TxtA
        /\ procs[p].req.payload.new_page_content = Some(TxtAb)

\* C13: a request of an authenticated user changes or removes no message
\* that is stored under another user_id.
C13_OwnerOnly ==
    [][\A p \in Procs :
        (/\ procs[p].pc = "idle" /\ procs'[p].pc = "done"
         /\ procs'[p].req.caller # 0) =>
            \A id \in DictIds(db) :
                DictGet(db, id).metadata.user_id # procs'[p].req.caller =>
                    (id \in DictIds(db') /\ DictGet(db', id) = DictGet(db, id))
      ]_vars

\* C14: every stored message (all of them came in through POST /add of an
\* authenticated user; session rows are never removed or handed over here)
\* names a session that its user_id owns.
C14_AppendOwnsSession ==
    \A i \in 1..Len(db.dict) :
        LET md == db.dict[i].metadata
        IN  sessions[md.session_id].exists /\ sessions[md.session_id].user_id = md.user_id

\* The user-role messages stored for a session, oldest first (nothing is
\* updated or deleted where this is used).
UserMessages(d, s) ==
    SelectSeq(d.dict, LAMBDA e : e.metadata.session_id = s /\ e.metadata.message_role = "user")

\* C15: when an append changes a session's title, the title was the
\* placeholder, the batch holds the first user-role message ever stored for
\* the session, and the new title is the first 50 characters of that message;
\* no other step of an append changes a title.
C15_TitleGate ==
    [][\A p \in Procs, s \in SessionIds :
        (/\ procs[p].op = "append" /\ procs'[p] # procs[p]
         /\ sessions'[s].title # sessions[s].title) =>
            /\ procs[p].pc = "commit"
            /\ sessions[s].title = PLACEHOLDER_TITLE
            /\ UserMessages(db, s) # <<>>
            /\ UserMessages(db, s)[1].id \in SeqRange(procs[p].ret.ids)
            /\ sessions'[s].title = Prefix(UserMessages(db, s)[1].page_content, TITLE_PREFIX_LEN)
      ]_vars

RECURSIVE Ascending(_)
Ascending(S) ==
    IF S = {} THEN <<>>
    ELSE LET m == CHOOSE m \in S : \A y \in S : m <= y
         IN  <<m>> \o Ascending(S \ {m})

\* The ascending list of the distinct values of xs that lie in 1..30.
DistinctValid(xs) == Ascending({xs[i] : i \in 1..Len(xs)} \cap (1..30))

RoundTrip(xs) ==
    /\ convert_bitmask_to_indices(convert_indices_to_bitmask(xs)) = DistinctValid(xs)
    /\ convert_indices_to_bitmask(xs)
          = convert_indices_to_bitmask(SelectSeq(xs, LAMBDA x : x \in 1..30))

\* The evaluation indices the history shows for a stored message.
ShownIndices(d, id) == ChatMessageOutput(DictGet(d, id)).evaluation_indices

\* C16: decoding the encoding of an index list (any order, duplicates,
\* values outside 1..30, the empty list) gives the ascending list of its
\* distinct values in 1..30, and values outside 1..30 add nothing to the
\* encoding: this holds for the lists given to append and to ai_update,
\* and the history then shows that list for the message.
C16_CodecRoundTrip ==
    [][\A p \in Procs :
        /\ AddStep(p) =>
              \A k \in 1..Len(procs[p].docs) :
                  LET xs == procs[p].docs[k].evaluation_indices
                  IN  /\ RoundTrip(xs)
                      /\ ShownIndices(db', procs'[p].ret.ids[k]) = DistinctValid(xs)
        /\ (SyncStep(p, "ai") /\ procs'[p].ret.ok /\ procs'[p].arg.idx.some) =>
              LET xs == procs'[p].arg.idx.val
              IN  /\ RoundTrip(xs)
                  /\ ShownIndices(db', procs'[p].arg.id) = DistinctValid(xs)
      ]_vars

C16_Witness ==
    /\ procs[1].op = "ai" /\ procs[1].pc = "done" /\ procs[1].ret.ok
    /\ procs[1].arg.idx = Some(<<5, 31, 0, 12>>)
    /\ ShownIndices(db, procs[1].arg.id) = <<5, 12>>
    /\ \E id \in DictIds(db) \ {procs[1].arg.id} : ShownIndices(db, id) = <<1, 30>>

Bitmasks(dict) == {dict[i].metadata.evaluation_bitmask : i \in 1..Len(dict)}

\* C17: after any sequence of appends (with or without initial evaluation
\* indices) and AI updates with arbitrary index lists, the evaluation_bitmask
\* of every message, in the store and in the snapshot on disk, is an integer
\* in 0 .. 2^30 - 1: no bit at position 30 or above is set.
C17_BitmaskRange ==
    Bitmasks(db.dict) \cup Bitmasks(disk.pkl.dict) \subseteq 0..(2 ^ 30 - 1)

C17_Witness ==
    /\ procs[1].op = "ai" /\ procs[1].pc = "done" /\ procs[1].ret.ok
    /\ procs[1].arg.idx = Some(<<30, 31>>)
    /\ DictGet(db, procs[1].arg.id).metadata.evaluation_bitmask = 2 ^ 29
    /\ \E id \in DictIds(db) : DictGet(db, id).metadata.evaluation_bitmask = 2 ^ 29 + 1
    /\ Bitmasks(disk.pkl.dict) = Bitmasks(db.dict)

\* What identifies a message and must stay as it was at insertion.
Frame(e) ==
    [id |-> e.id, session_id |-> e.metadata.session_id, user_id |-> e.metadata.user_id,
     message_role |-> e.metadata.message_role, time |-> e.metadata.time]

Frames(d, dk) ==
    {Frame(d.dict[i]) : i \in 1..Len(d.dict)}
        \cup {Frame(dk.pkl.dict[i]) : i \in 1..Len(dk.pkl.dict)}

\* C18: the session_id, user_id, role and creation timestamp a message got
\* at append are the ones it has after every later step, in the store and
\* in the snapshot, for as long as it exists: update_content,
\* update_recommendation and ai_update change none of the four.
C18_FrameKept ==
    [][/\ \A f \in Frames(db, disk), g \in Frames(db', disk') : f.id = g.id => f = g
       /\ \A p \in Procs :
             AddStep(p) =>
                \A k \in 1..Len(procs[p].docs) :
                    LET e == DictGet(db', procs'[p].ret.ids[k])
                    IN  /\ e.metadata.session_id = procs[p].docs[k].session_id
                        /\ e.metadata.user_id = procs[p].docs[k].user_id
                        /\ e.metadata.message_role = procs[p].docs[k].message_role
                        /\ e.metadata.time = procs[p].todo[k].metadata.time
      ]_vars

\* A report of user 2 in session 1, appended at time 1 as the second message,
\* after an AI update that changed its content and indices.
C18_Witness ==
    /\ procs[1].op = "ai" /\ procs[1].pc = "done" /\ procs[1].ret.ok
    /\ procs[1].arg.id = 2 /\ procs[1].arg.text = Some(TxtB)
    /\ 2 \in DictIds(db)
    /\ DictGet(db, 2).page_content = TxtB
    /\ DictGet(db, 2).metadata.recommendation_status = "dislike"
    /\ Frame(DictGet(db, 2))
          = [id |-> 2, session_id |-> 1, user_id |-> 2, message_role |-> "report",
             time |-> IsoFormat(1)]

\* The ids append has returned so far: uuid4 values 1 .. nextId - 1.
Issued(nid) == 1..(nid - 1)

\* C19: the ids an append returns are pairwise distinct and differ from
\* every id an earlier append returned, whether that message is still stored
\* or was deleted; no other operation brings a new id into the store:
\* update_content and ai_update re-insert only the id they removed, and a
\* start loads only what the snapshot holds.
C19_IdsNeverReused ==
    [][/\ \A p \in Procs :
             AddStep(p) =>
                LET ids == procs'[p].ret.ids
                IN  /\ \A j, k \in 1..Len(ids) : j # k => ids[j] # ids[k]
                    /\ SeqRange(ids) \cap Issued(nextId) = {}
                    /\ SeqRange(ids) \cap (DictIds(db) \cup DiskIds(disk)) = {}
                    /\ SeqRange(ids) \subseteq Issued(nextId')
                    /\ DictIds(db') = DictIds(db) \cup SeqRange(ids)
       /\ (\A p \in Procs : ~AddStep(p)) =>
             DictIds(db') \subseteq DictIds(db) \cup DiskIds(disk)
       /\ \A p \in Procs :
             (SyncStep(p, "update") \/ SyncStep(p, "ai") \/ SyncStep(p, "rec")
                 \/ SyncStep(p, "delete")) => DictIds(db') \subseteq DictIds(db)
       /\ DictIds(db') \cup DiskIds(disk') \subseteq Issued(nextId')
      ]_vars

\* Message 1 was deleted, and a later append returned the id 3.
C19_Witness ==
    /\ procs[1].op = "append" /\ procs[1].pc = "done"
    /\ procs[1].ret.kind = "ids" /\ procs[1].ret.ids = <<3>>
    /\ DictIds(db) = {2, 3}
    /\ DiskIds(disk) = {2, 3}
    /\ DictGet(db, 2).page_content = TxtAb
    /\ DictGet(db, 2).metadata.message_role = "user"

\* The clock reading a timestamp string was made from.
TimeOf(str) == CHOOSE t \in 0..(MaxTime + 1) : IsoFormat(t) = str

\* The stored messages of one session and user.
StoredOf(d, s, u) ==
    {d.dict[i] : i \in {j \in 1..Len(d.dict) : /\ d.dict[j].metadata.session_id = s
                                                 /\ d.dict[j].metadata.user_id = u}}

\* C20: whenever the store exists, the history of (session_id, user_id)
\* holds exactly the stored messages with that session_id and user_id, each
\* once and as stored, in non-decreasing order of creation timestamp, and
\* total_messages is the length of the list.
C20_HistoryExactSorted ==
    db.init =>
        \A s \in SessionIds, u \in UserIds :
            LET r == get_conversation_history_by_session(db, sessions, s, u)
                h == r.messages
                stored == StoredOf(db, s, u)
            IN  /\ ~r.raised
                /\ MsgIds(h) = {e.id : e \in stored}
                /\ Len(h) = Cardinality(stored)
                /\ \A i \in 1..Len(h) :
                      LET e == DictGet(db, h[i].message_id)
                      IN  /\ h[i].page_content = e.page_content
                          /\ h[i].timestamp = e.metadata.time
                          /\ h[i].user_id = u
                          /\ h[i].role = e.metadata.message_role
                /\ \A i, j \in 1..Len(h) :
                      i < j => TimeOf(h[i].timestamp) <= TimeOf(h[j].timestamp)
                /\ r.total_messages = Len(h)

\* Three messages are stored; the two of session 1 and user 1 stand in the
\* store with the later one first (the earlier one was re-inserted by an
\* update), and the history lists the earlier one first.
C20_Witness ==
    /\ db.init /\ Len(db.dict) = 3
    /\ LET h == get_conversation_history_by_session(db, sessions, 1, 1).messages
       IN  /\ Len(h) = 2
           /\ TimeOf(h[1].timestamp) < TimeOf(h[2].timestamp)
           /\ DictPos(db, h[2].message_id) < DictPos(db, h[1].message_id)

\* The candidates of a search that match the session and the user, in the
\* order of the index search.
Kept(d, session_id, user_id, query, k) ==
    SelectSeq(similarity_search_with_score(d, query, Max(5 * k, 20)),
              LAMBDA c : c.doc.metadata.session_id = session_id
                         /\ c.doc.metadata.user_id = user_id)

\* C21: search_faiss_session with k > 0 returns the first min(k, number
\* kept) of the max(5k, 20) nearest messages that match the session and the
\* user, in ascending distance order: at most k entries, no id twice, scores
\* non-decreasing, every message_id the id of a stored message with the
\* returned content and metadata.
C21_SearchReturnsNearest ==
    db.init =>
        \A s \in SessionIds, u \in UserIds, q \in Queries, k \in Ks :
            LET R == search_faiss_session(db, s, u, q, k)
                res == R.results
                kept == Kept(db, s, u, q, k)
            IN  /\ ~R.raised
                /\ Len(res) = (IF Len(kept) < k THEN Len(kept) ELSE k)
                /\ \A i, j \in 1..Len(res) :
                      /\ i # j => res[i].message_id # res[j].message_id
                      /\ i < j => res[i].score <= res[j].score
                /\ \A i \in 1..Len(res) :
                      /\ res[i].message_id \in DictIds(db)
                      /\ res[i].score = kept[i].score
                      /\ DictGet(db, res[i].message_id).page_content = res[i].page_content
                      /\ DictGet(db, res[i].message_id).page_content = kept[i].doc.page_content
                      /\ DictGet(db, res[i].message_id).metadata = kept[i].doc.metadata

\* keyword occurs in text when letter case is ignored.
CiContains(text, keyword) ==
    \E k \in 0..(Len(text) - Len(keyword)) :
        \A i \in 1..Len(keyword) : Lower(text[k + i]) = Lower(keyword[i])

\* C22: get_sessions_by_keyword(user_id, keyword) returns a summary for a
\* session exactly when the relational store has the session for user_id
\* and the store holds a message of that session and user whose content
\* contains the keyword, letter case ignored; one summary per session, with
\* the session's title.
C22_KeywordSessions ==
    db.init =>
        \A u \in UserIds, kw \in Keywords :
            LET res == get_sessions_by_keyword(db, sessions, u, kw)
            IN  /\ {r.session_id : r \in res}
                      = {s \in SessionIds :
                            /\ sessions[s].exists /\ sessions[s].user_id = u
                            /\ \E e \in StoredOf(db, s, u) : CiContains(e.page_content, kw)}
                /\ \A r1, r2 \in res : r1.session_id = r2.session_id => r1 = r2
                /\ \A r \in res : r.title = sessions[r.session_id].title

\* User 1 has "Ab" in the own session 1 and in session 2 of user 2; user 2
\* has "a" in session 1: the keyword "AB" gives user 1 session 1 alone.
C22_Witness ==
    /\ db.init /\ sessions[1].exists /\ sessions[2].exists
    /\ \E e \in StoredOf(db, 1, 1) : e.page_content = TxtAb
    /\ \E e \in StoredOf(db, 2, 1) : e.page_content = TxtAb
    /\ \E e \in StoredOf(db, 1, 2) : e.page_content = TxtA
    /\ {r.session_id : r \in get_sessions_by_keyword(db, sessions, 1, <<"A", "B">>)} = {1}
    /\ get_sessions_by_keyword(db, sessions, 2, <<"a">>) = {}

\* The store d2 is the store d1 with the metadata fields `fields` of the
\* message id set anew and nothing else changed.
OnlyFieldsChanged(d1, d2, id, fields) ==
    /\ d2.index = d1.index
    /\ d2.i2d = d1.i2d
    /\ Len(d2.dict) = Len(d1.dict)
    /\ \A i \in 1..Len(d1.dict) :
          IF d1.dict[i].id # id THEN d2.dict[i] = d1.dict[i]
          ELSE /\ d2.dict[i].id = id
               /\ d2.dict[i].page_content = d1.dict[i].page_content
               /\ \A f \in DOMAIN d1.dict[i].metadata \ fields :
                     d2.dict[i].metadata[f] = d1.dict[i].metadata[f]

\* The entry the history of the message's session and user shows for it.
HistoryEntry(d, id) ==
    LET e == DictGet(d, id)
        h == HistoryMessages(d, e.metadata.session_id, e.metadata.user_id)
    IN  h[CHOOSE i \in 1..Len(h) : h[i].message_id = id]

\* C23: an AI update that gives only evaluation indices changes only the
\* evaluation bitmask of its message, and the history then shows the given
\* indices with the recommendation status the message had (null after a
\* plain append); an update that gives only a recommendation status, by
\* either function, changes only that status; no other message changes.
C23_IndependentFields ==
    [][\A p \in Procs :
        LET a == procs'[p].arg
        IN  /\ (SyncStep(p, "ai") /\ procs'[p].ret.ok /\ a.idx.some
                    /\ ~a.text.some /\ a.rec = "absent") =>
                  /\ OnlyFieldsChanged(db, db', a.id, {"evaluation_bitmask"})
                  /\ HistoryEntry(db', a.id).evaluation_indices = DistinctValid(a.idx.val)
                  /\ HistoryEntry(db', a.id).recommendation_status
                        = DictGet(db, a.id).metadata.recommendation_status
            /\ (SyncStep(p, "ai") /\ procs'[p].ret.ok /\ ~a.idx.some
                    /\ ~a.text.some /\ a.rec # "absent") =>
                  /\ OnlyFieldsChanged(db, db', a.id, {"recommendation_status"})
                  /\ HistoryEntry(db', a.id).evaluation_indices
                        = HistoryEntry(db, a.id).evaluation_indices
            /\ (SyncStep(p, "rec") /\ procs'[p].ret.ok) =>
                  /\ OnlyFieldsChanged(db, db', a.id, {"recommendation_status"})
                  /\ HistoryEntry(db', a.id).evaluation_indices
                        = HistoryEntry(db, a.id).evaluation_indices
      ]_vars

\* Message 1 was appended without indices or status and then given the
\* indices [1, 3, 30]; message 2 keeps its own.
C23_Witness ==
    /\ procs[1].op = "ai" /\ procs[1].pc = "done" /\ procs[1].ret.ok
    /\ procs[1].arg = [id |-> 1, text |-> Absent, idx |-> Some(<<1, 3, 30>>), rec |-> "absent"]
    /\ DictIds(db) = {1, 2}
    /\ HistoryEntry(db, 1).evaluation_indices = <<1, 3, 30>>
    /\ HistoryEntry(db, 1).recommendation_status = "None"
    /\ HistoryEntry(db, 1).page_content = TxtA
    /\ HistoryEntry(db, 2).evaluation_indices = <<2>>
    /\ HistoryEntry(db, 2).recommendation_status = "dislike"

RecOf(d, id) == DictGet(d, id).metadata.recommendation_status

\* The status a successful update of this step gives the message id, or
\* "absent" when the step is no such update of id.
GivenStatus(p, id) ==
    IF procs[p].pc = "idle" /\ procs'[p].pc = "done" /\ procs'[p].ret.kind = "bool"
          /\ procs'[p].ret.ok /\ procs'[p].arg.id = id /\ procs'[p].op \in {"rec", "ai"}
    THEN procs'[p].arg.rec
    ELSE "absent"

\* C24: the recommendation status of every stored message is like, dislike
\* or unset ("None"); a successful update with like or dislike stores that
\* value, one with none stores unset, and every other step leaves the
\* status of every message that stays as it is: the stored value is the
\* one of the last successful update.
C24_RecommendationTriState ==
    [][/\ \A id \in DictIds(db') : RecOf(db', id) \in {"like", "dislike", "None"}
       /\ \A id \in DictIds(db) \cap DictIds(db') :
             LET given == {GivenStatus(p, id) : p \in Procs} \ {"absent"}
             IN  /\ given = {} => RecOf(db', id) = RecOf(db, id)
                 /\ \A g \in given : RecOf(db', id) = (IF g = "none" THEN "None" ELSE g)
       /\ \A p \in Procs :
             (SyncStep(p, "rec") \/ SyncStep(p, "ai")) =>
                (procs'[p].ret.ok <=> procs'[p].arg.id \in DictIds(db))
      ]_vars

\* Message 2, appended with dislike, was reset by an AI update with none;
\* message 1, appended unset, has been set to dislike.
C24_Witness ==
    /\ procs[1].op = "ai" /\ procs[1].pc = "done" /\ procs[1].ret.ok
    /\ procs[1].arg.id = 2 /\ procs[1].arg.rec = "none"
    /\ RecOf(db, 2) = "None"
    /\ DictGet(db, 2).metadata.message_role = "optimize"
    /\ RecOf(db, 1) = "dislike"
    /\ DictGet(db, 1).metadata.message_role = "user"

NoSessionRow(sess, s, u) == ~(sess[s].exists /\ sess[s].user_id = u)

\* C25: when the relational store has no session row for (session_id,
\* user_id), the history of an existing store does not fail: it carries no
\* title and no topics, and all stored messages of that session and user;
\* delete_session leaves the memory store and its snapshot as they were, so
\* the messages of the deleted session are still returned.
C25_HistoryWithoutSession ==
    [][/\ \A s \in SessionIds, u \in UserIds :
             (db'.init /\ NoSessionRow(sessions', s, u)) =>
                LET r == get_conversation_history_by_session(db', sessions', s, u)
                IN  /\ ~r.raised
                    /\ ~r.has_title /\ r.title = <<>> /\ ~r.has_topics
                    /\ MsgIds(r.messages) = {e.id : e \in StoredOf(db', s, u)}
                    /\ Len(r.messages) = Cardinality(StoredOf(db', s, u))
                    /\ r.total_messages = Len(r.messages)
       /\ last'.op = "delete_session" =>
             /\ db' = db /\ disk' = disk
             /\ \A s \in SessionIds, u \in UserIds :
                   get_conversation_history_by_session(db', sessions', s, u).messages
                     = get_conversation_history_by_session(db, sessions, s, u).messages
      ]_vars

\* Session 1 has just been deleted; its two messages are in the history.
C25_Witness ==
    /\ last.op = "delete_session" /\ ~sessions[1].exists /\ sessions[2].exists
    /\ db.init
    /\ LET r == get_conversation_history_by_session(db, sessions, 1, 1)
       IN  ~r.raised /\ ~r.has_title /\ Len(r.messages) = 2

\* A request that passed the checks its router makes before it looks at
\* the store has got its answer in this step.
Answered(p) ==
    /\ procs[p].pc = "idle" /\ procs'[p].pc = "done"
    /\ \/ procs'[p].op = "append"
       \/ procs'[p].req.ep \in {"patch", "delete"}
       \/ /\ procs'[p].req.ep = "ai-update"
          /\ procs'[p].req.secret
          /\ procs'[p].req.sig = generate_hmac(procs'[p].req.payload)

AnswerStatus(p) ==
    IF procs'[p].op = "append" THEN HttpAddStatus(db.init, procs'[p].ret)
    ELSE procs'[p].status

\* C26: while the process runs without a store (the initialization at
\* startup failed), no step creates the store or changes the snapshot or
\* the session rows, and /add, /history, /search/session,
\* /search/keyword/sessions, PATCH /message, DELETE /message and /ai-update
\* all answer 503.
C26_UnavailableWithoutStore ==
    [][(phase = "run" /\ ~db.init) =>
          /\ db' = db /\ disk' = disk /\ sessions' = sessions
          /\ \A p \in Procs : Answered(p) => AnswerStatus(p) = 503
          /\ \A u \in UserIds, s \in SessionIds :
                /\ HttpHistoryStatus(db, sessions, u, s, u) = 503
                /\ \A q \in Queries, k \in Ks : HttpSearchStatus(db, u, s, u, q, k) = 503
          /\ \A kw \in Keywords : HttpKeywordStatus(db, kw) = 503
      ]_vars

\* C27: when update_faiss_document or ai_update_document returns false for
\* an id that was stored, the message is still stored under that id with
\* the content and metadata it had before the call.
C27_UpdateAllOrNothing ==
    [][\A p \in Procs :
        (/\ SyncStep(p, "update") \/ SyncStep(p, "ai")
         /\ procs'[p].ret.kind = "bool" /\ ~procs'[p].ret.ok
         /\ procs'[p].arg.id \in DictIds(db)) =>
            /\ procs'[p].arg.id \in DictIds(db')
            /\ DictGet(db', procs'[p].arg.id) = DictGet(db, procs'[p].arg.id)
      ]_vars

\* The user messages of session s that no stored user message of s precedes.
EarliestUserMessages(d, s) ==
    LET U == {i \in 1..Len(d.dict) :
                 /\ d.dict[i].metadata.session_id = s
                 /\ d.dict[i].metadata.message_role = "user"}
    IN  {d.dict[i] : i \in {j \in U :
            \A k \in U : ~StrLess(d.dict[k].metadata.time, d.dict[j].metadata.time)}}

\* No append call is between its start and its return.
AppendsSettled == \A p \in Procs : procs[p].pc \in {"idle", "done"}

\* Call p writes the title of the session it looked up (crud.py 133-134).
TitleWrite(p) == procs[p].pc = "commit" /\ procs'[p].pc # "commit"

\* C28: with append calls of user messages to one placeholder-titled session
\* interleaving at their awaits, once the calls have returned the title is
\* the 50-character prefix of the user message with the earliest creation
\* time, and only one call writes the title: a call writes it only while it
\* is still the placeholder.
C28_TitleUnderConcurrency ==
    /\ [](AppendsSettled /\ db.init /\ sessions[1].title # PLACEHOLDER_TITLE =>
            \E m \in EarliestUserMessages(db, 1) :
                sessions[1].title = Prefix(m.page_content, TITLE_PREFIX_LEN))
    /\ [][\A p \in Procs :
            TitleWrite(p) => sessions[procs[p].stu].title = PLACEHOLDER_TITLE]_vars

\* A /refresh-token request is answered in this step.
RefreshAnswered == Len(grants') = Len(grants) + 1

\* The answer sent in this step.
RefreshAnswer == grants'[Len(grants')]

\* C29: a refresh token is accepted by /refresh-token at most once, also by
\* requests running concurrently: no two answers to the same token are 200;
\* a request is answered 200 only while the token it presents is the stored
\* one, and every other answer is 401 without an access token; a request that
\* presents a valid refresh token other than the stored one leaves the
\* user's stored refresh token cleared.
C29_RefreshTokenOnce ==
    /\ [](\A i, j \in DOMAIN grants :
            (i < j /\ grants[i].status = 200 /\ grants[j].status = 200) =>
                grants[i].token # grants[j].token)
    /\ [][RefreshAnswered =>
            LET a == RefreshAnswer
                stored == users[a.token.sub].refresh_token
                valid == decode_token(a.token).ok /\ a.token.type = "refresh"
            IN  /\ a.status = 200 => valid /\ stored = a.token
                /\ a.status # 200 => a.status = 401 /\ ~a.access
                /\ (valid /\ stored # NoToken /\ stored # a.token) =>
                        users'[a.token.sub].refresh_token = NoToken
          ]_vars

\* C30: an upload that is refused leaves the session's directory as it was;
\* one that is answered 200 has written exactly the files of the request, at
\* most MAX_FILE_COUNT of them and at most MAX_TOTAL_SIZE bytes in all.
C30_UploadAllOrNothing ==
    [][\A s \in SessionIds :
        (upload_resp' # upload_resp /\ upload_resp'.session_id = s) =>
            LET r == upload_resp'
                names == {r.files[i].filename : i \in DOMAIN r.files}
                Sum[i \in 0..Len(r.files)] ==
                    IF i = 0 THEN 0 ELSE Sum[i - 1] + r.files[i].size
            IN  /\ r.status # 200 => upload_dir'[s] = upload_dir[s]
                /\ r.status = 200 =>
                    /\ Len(r.files) <= MAX_FILE_COUNT
                    /\ Sum[Len(r.files)] <= MAX_TOTAL_SIZE
                    /\ {f.filename : f \in upload_dir'[s]} =
                            {f.filename : f \in upload_dir[s]} \cup names
                    /\ \A i \in DOMAIN r.files :
                            \E f \in upload_dir'[s] : f.filename = r.files[i].filename
      ]_vars

====
